---- MODULE Spec2Model ----
(***************************************************************************)
(* Model of the serviceclients library: the SQL clients (mysqlclient,      *)
(* pymysql, psycopg2), the ElasticSearch client, the SQS client and the    *)
(* S3 client.  One client instance is constructed per behaviour (client);  *)
(* the driver / backend is the environment: every driver call draws its    *)
(* outcome from the set of outcomes the code distinguishes.                *)
(***************************************************************************)
EXTENDS Integers, Sequences, FiniteSets, TLC

VARIABLES
    client,                 \* which client class this behaviour constructs
    \* ---- SQL client (DBClient) ----
    flavor,                 \* "mysqlclient" | "pymysql" | "psycopg2"
    WRITE_RETRY_ATTEMPTS,   \* self.WRITE_RETRY_ATTEMPTS
    DIRTY_READS,            \* self.DIRTY_READS
    config,                 \* self.config: "ok" (complete), "None", or the key
                            \*   it lacks ("no_db_name", "no_read_host")
    read_db,                \* self.read_db:  "None", or the state of its handle
    write_db,               \* self.write_db: "None", or the state of its handle
    sqlPc,                  \* "idle" | "run" | "done"
    sqlOp,                  \* "read" | "write" | "escape"
    retries,                \* the retries argument of the current invocation
    sqlOut,                 \* what the outermost call gave its caller
    execCalls,              \* cursor.execute(query) calls made by this call
    allRetried,             \* every attempt so far ran its query and was retried
    prevStale,              \* the attempt before the latest failed stale on its handle
    lastDisp,               \* how the latest attempt ended: "none", "ok",
                            \*   "retry_lock", "retry_stale" or "fail"
    ran,                    \* the latest attempt ran its query
    usedFresh,              \* ... on a handle that this attempt connected
    lastRows,               \* rowcount of the latest successful execute
    lastProbe,              \* the latest attempt's is_connection_open: the
                            \*   exception it met, its outcome, handle closed
    lastConn,               \* what the latest read_connection / write_connection
                            \*   gave: "handle", "None", "raise" ("none": not called)
    att,                    \* what the latest attempt did: retries at its entry,
                            \*   driver connects, READ UNCOMMITTED statements run,
                            \*   those run on the handle it queried, lock hooks,
                            \*   sleeps, and the kind of handle it used
    dirtyRuns,              \* per lane: READ UNCOMMITTED statements run on the
                            \*   handle now in the slot
    unclosed,               \* handles opened, dropped from their slot and never
                            \*   closed
    \* ---- ElasticSearch client (ESClient) ----
    RETRY_ATTEMPTS,         \* self.RETRY_ATTEMPTS
    idxExists,              \* backend: the index exists
    idxDocs,                \* backend: ids of the documents in the index
    idxVisible,             \* backend: the documents a search sees (refreshed)
    aliasExists,            \* backend: the alias exists
    esPc,                   \* "idle" | "run" | "done"
    esOp,                   \* the facade method called
    esArg,                  \* its argument: doc id, number of records, or replace
    esPhase,                \* where a loop method is: "loop", "del_loop",
                            \*   "recreate", "refresh"; "rec" for a recursive one;
                            \*   add_alias: "put_alias", then "get_alias"
    esRetries,              \* the retries argument / the loop's attempt
    esResult,               \* the local variable result of a loop method
    esCalls,                \* requests the call sent for its own operation
    esAllConn,              \* every request of this call failed on the connection
    esLastResp,             \* the backend's latest response
    esExisted,              \* the index existed when the call began
    esDeleted,              \* this call's delete of the index was carried out
    esCreated,              \* this call's create of the index (create_index) or
                            \*   of the alias (add_alias) was carried out
    esPrevBulk,             \* N when the call before this one was a bulk update
                            \*   of N records that returned True, else 0
    esOut,                  \* what the call gave its caller
    msQueries,              \* msearch: the number of queries submitted
    msChunkSize,            \* msearch: the caller's chunk_size
    msDocType,              \* msearch: the caller's doc_type
    msStack,                \* msearch: the invocations in progress, innermost
                            \*   last; each with its retries, chunk_size,
                            \*   doc_type, next chunk start and found list
    msFound,                \* msearch: the list returned (query numbers)
    msMaxSent,              \* msearch: most queries sent in one request
    msTypeKept,             \* msearch: every request used the caller's doc_type
    msSlept,                \* msearch: the latest attempt called time.sleep and
                            \*   self.connect()
    \* ---- SQS client (SQSClient) ----
    sqs_CONN_RETRIES,       \* self.CONN_RETRIES
    sqs_LONG_POLL_SECONDS,  \* self.SQS_LONG_POLL_SECONDS
    sqs_MSG_INVISIBLE_SECONDS, \* self.SQS_MSG_INVISIBLE_SECONDS
    sqs_connection_attempt, \* self.connection_attempt
    queue,                  \* self.queue: None or the queue handle
    msgInQueue,             \* backend: the message is still in the queue
    sqsPc,                  \* "idle" | "parsing" | "deleting" | "getting" | "done"
    sqsOp,                  \* "connect" | "parse_message" | "delete_message"
                            \*   | "get_messages"
    sqsParseFailed,         \* json.loads raised in this call
    sqsAbsent,              \* the message was gone when the call began
    sqsInvocations,         \* invocations of delete_message in this call
    sqsQueueCalls,          \* delete calls this call issued to the queue
    sqsLastResp,            \* outcome of the latest call on the queue
    sqsLastConnect,         \* the latest connect(): the counter before it, its
                            \*   outcome, whether it raised
    sqsArgs,                \* the arguments the caller gave get_messages
    sqsSent,                \* the number of messages, wait and visibility timeouts of the latest
                            \*   get_messages request sent to the queue
    sqsOut,                 \* what the call gave its caller
    \* ---- S3 client (S3Client) ----
    s3_CONN_RETRIES,        \* self.CONN_RETRIES
    s3_connection_attempt,  \* self.connection_attempt
    bucket,                 \* self.bucket: None or the bucket handle
    keyExists,              \* backend: the key is in the bucket
    s3Pc,                   \* "idle" | "run" | "done"
    s3Op,                   \* "connect" | "read" | "download" | "write" | "upload"
    s3Calls,                \* invocations of the method in this call
    s3LastResp,             \* the backend's latest response
    s3LastConnect,          \* the latest connect(): "ok" | "fail" (logged) | "raise"
    s3FailStreak,           \* connects that failed since the latest successful one
    s3Sleeps,               \* time.sleep(RECONNECT_SLEEP_SECS) calls of this call
    s3Out,                  \* what the call gave its caller
    \* ---- the three SQL flavors driven by one sequence of backend outcomes ----
    eqOp,                   \* "read" | "write": the method called on each flavor
    eqTrace,                \* the outcomes of cursor.execute fed so far
    eqSt,                   \* per flavor: pc, retries, attempts made, result
    \* ---- threads sharing one lane of one SQL client ----
    mtThreads,              \* number of threads that call the client
    mtOp,                   \* "read" | "write": the method they all call
    mtSlot,                 \* the lane's slot: None or its handle
    mtNextId,               \* number of the next handle the driver opens
    mtInvalid,              \* the handles closed or dropped from the slot
    mtPc,                   \* per thread: "idle" | "acquire" | "execute" | "done"
    mtHeld,                 \* per thread: the handle its connection call returned
    mtRetries,              \* per thread: the retries argument
    mtUsedInvalid,          \* the latest cursor.execute ran on a handle that
                            \*   was already in mtInvalid
    \* ---- construction of a client ----
    ctor                    \* the latest constructor call: the class, the
                            \*   arguments passed, the fields it set

sqlVars == <<flavor, WRITE_RETRY_ATTEMPTS, DIRTY_READS, read_db, write_db,
             sqlPc, sqlOp, retries, sqlOut, execCalls, allRetried,
             prevStale, lastDisp, ran, usedFresh, lastRows, lastProbe, lastConn,
             config, att, dirtyRuns, unclosed>>
esStore == <<idxExists, idxDocs, idxVisible, aliasExists>>
esVars == <<RETRY_ATTEMPTS, idxExists, idxDocs, idxVisible, aliasExists, esPc, esOp, esArg,
            esPhase, esRetries, esResult, esCalls, esAllConn, esLastResp,
            esExisted, esDeleted, esCreated, esPrevBulk, esOut, msQueries,
            msChunkSize, msDocType, msStack, msFound, msMaxSent, msTypeKept, msSlept>>
msVars == <<msQueries, msChunkSize, msDocType, msStack, msFound, msMaxSent, msTypeKept, msSlept>>
sqsTimeouts == <<sqs_LONG_POLL_SECONDS, sqs_MSG_INVISIBLE_SECONDS>>
sqsVars == <<sqsTimeouts, sqs_CONN_RETRIES, sqs_connection_attempt, queue, msgInQueue, sqsPc,
             sqsOp, sqsParseFailed, sqsAbsent, sqsInvocations, sqsQueueCalls,
             sqsLastResp, sqsLastConnect, sqsArgs, sqsSent, sqsOut>>
s3Vars == <<s3_CONN_RETRIES, s3_connection_attempt, bucket, keyExists, s3Pc, s3Op,
            s3Calls, s3LastResp, s3LastConnect, s3FailStreak, s3Sleeps, s3Out>>
eqVars == <<eqOp, eqTrace, eqSt>>
mtVars == <<mtThreads, mtOp, mtSlot, mtNextId, mtInvalid, mtPc, mtHeld, mtRetries,
            mtUsedInvalid>>
notSql == <<esVars, sqsVars, s3Vars, eqVars, mtVars, ctor>>
notEs == <<client, sqlVars, sqsVars, s3Vars, eqVars, mtVars, ctor>>
notSqs == <<client, sqlVars, esVars, s3Vars, eqVars, mtVars, ctor>>
notS3 == <<client, sqlVars, esVars, sqsVars, eqVars, mtVars, ctor>>

---------------------------------------------------------------------------
(* Bounds of the model *)
MaxRetryArg == 2    \* largest retry bound passed to a constructor, and largest
                    \* bound in effect that is explored
MaxRows == 2        \* largest rowcount / result size the backend reports
MaxHandles == 3     \* handles the driver opens for the threads sharing a lane
MaxUnclosed == 2    \* handles left unclosed that are followed
MaxDocs == 2        \* document ids / records of a bulk update
MaxQueries == 3     \* queries given to one msearch call
MaxChunkSize == 2   \* largest chunk_size a caller of msearch passes
MaxConnRetries == 3 \* largest conn_retries given to the SQS / S3 constructor
MaxInvocations == 4 \* invocations of a retrying SQS / S3 method followed per call
MaxCtorArg == 4     \* largest number passed as an argument of a constructor

(* Program constants *)
DEFAULT_WRITE_RETRY_ATTEMPTS == 100
DEFAULT_RETRY_ATTEMPTS == 60
DEFAULT_CHUNK_SIZE == 100
DEFAULT_RECONNECT_SLEEP_SECS == 1
DEFAULT_REQUEST_TIMEOUT == 15
DEFAULT_SQS_LONG_POLL_SECONDS == 20
DEFAULT_SQS_MSG_INVISIBLE_SECONDS == 14

None == "None"
Flavors == {"mysqlclient", "pymysql", "psycopg2"}

(* What a call gives its caller: a returned value or a raised error. *)
Out(kind, tag, n) == [kind |-> kind, tag |-> tag, n |-> n]
NoOut == Out("none", "", 0)
Returned(tag, n) == Out("return", tag, n)
Raised(tag) == Out("raise", tag, 0)
(* Python truth value of a returned value *)
Truthy(o) ==
    /\ o.kind = "return"
    /\ \/ o.tag = "True"
       \/ o.tag = "int" /\ o.n > 0
       \/ o.tag = "list" /\ o.n > 0
       \/ o.tag \in {"dict", "error_dict"}

---------------------------------------------------------------------------
(* Driver errors.  An error is its class and its text (a sequence of words). *)
Err(cls, msg) == [cls |-> cls, msg |-> msg]
NoErr == Err("ok", <<>>)
MsgDeadlock == <<"Deadlock", "found", "when", "trying", "to", "get", "lock">>
MsgLockWait == <<"Lock", "wait", "timeout", "exceeded">>
MsgCantConnect == <<"Can't", "connect", "to", "MySQL", "server">>
MsgNoTable == <<"Table", "doesn't", "exist">>
MsgGoneAway == <<"MySQL", "server", "has", "gone", "away">>
Messages == {MsgDeadlock, MsgLockWait, MsgCantConnect, MsgNoTable}

(* 'p in s' on texts *)
Contains(s, p) ==
    \E i \in 0..(Len(s) - Len(p)) : \A j \in 1..Len(p) : s[i + j] = p[j]

(* the lock test of execute_write_query on str(e) *)
IsLockError(str_e) ==
    \/ Contains(str_e, <<"trying", "to", "get", "lock">>)
    \/ Contains(str_e, <<"wait", "timeout", "exceeded">>)
    \/ Contains(str_e, <<"connect", "to", "MySQL", "server">>)

(* outcomes of cursor.execute(query) (and fetchall) *)
ExecOutcomes ==
    {NoErr}
    \cup {Err(c, m) : c \in {"ProgrammingError", "InterfaceError"}, m \in Messages}
    \cup {Err("OperationalError", MsgGoneAway), Err("Exception", MsgNoTable)}
(* outcomes of conn.cursor() in the liveness probe *)
ProbeOutcomes == {"ok", "ProgrammingError", "OperationalError", "InterfaceError"}
(* outcomes of conn.close() that the code provides for *)
CloseOutcomes == {"ok", "OperationalError"}

---------------------------------------------------------------------------
(* DBClient.__init__ *)
InitRetryAttempts(fl, write_retry_attempts) ==
    IF fl = "pymysql"
    THEN (IF write_retry_attempts # 0 THEN write_retry_attempts
          ELSE DEFAULT_WRITE_RETRY_ATTEMPTS)
    ELSE write_retry_attempts

(* the error of the 'retries exceeded' raise *)
ExceededError(fl, op) ==
    IF fl = "mysqlclient" THEN Raised("Exception: retires exceeded")
    ELSE Raised("DBConnExceeded: retires exceeded")

(* the guard at the head of execute_write_query / execute_read_query *)
RetriesExceeded_OffByOne(r) == r >= WRITE_RETRY_ATTEMPTS
RetriesExceeded(r) == r > WRITE_RETRY_ATTEMPTS

(* A lane's slot holds None or a handle; a handle is "live" (connected, no
   failure seen on it) or "stale" (an attempt failed on it with a
   connection-stale error and it is still in the slot).
   DBClient.is_connection_open: the probe's verdict, or the error it lets out *)
is_connection_open(conn, probe, pclose) ==
    IF conn = None
    THEN [raised |-> "none", is_open |-> FALSE, closed |-> FALSE]
    ELSE IF probe = "ok"
    THEN [raised |-> "none", is_open |-> TRUE, closed |-> FALSE]
    ELSE IF probe \in {"ProgrammingError", "OperationalError"}
    THEN (IF pclose \in {"ok", "OperationalError"}
          THEN [raised |-> "none", is_open |-> FALSE, closed |-> pclose = "ok"]
          ELSE [raised |-> pclose, is_open |-> FALSE, closed |-> FALSE])
    ELSE [raised |-> probe, is_open |-> FALSE, closed |-> FALSE]

(* what one call of is_connection_open met and gave: the exception raised by
   conn.cursor() or conn.close() ("none": neither raised), "True", "False"
   or "raise", and whether the handle was closed *)
NoProbe == [exc |-> "none", out |-> "none", closed |-> FALSE]
ProbeRecord(conn, probe, pclose) ==
    LET p == is_connection_open(conn, probe, pclose)
    IN  [exc |-> IF conn = None \/ probe = "ok" THEN "none" ELSE probe,
         out |-> IF p.raised # "none" THEN "raise"
                 ELSE IF p.is_open THEN "True" ELSE "False",
         closed |-> p.closed]

(* the config lookups of read_connection / write_connection succeed *)
ConfigComplete_NotChecked(cfg, lane) == TRUE
ConfigComplete(cfg, lane) == cfg = "ok" \/ (cfg = "no_read_host" /\ lane = "write")

(* the lane on which a new connection gets the READ UNCOMMITTED statement *)
SetsDirtyReads_AnyLane(lane) == DIRTY_READS
SetsDirtyReads(lane) == lane = "read" /\ DIRTY_READS

(* DBClient._connect: a new handle, or None when the driver's connect fails *)
_connect(connOk) == IF connOk THEN "live" ELSE None

(* DBClient.read_connection / write_connection.  in: the driver outcomes
   [probe, pclose, connOk, dirty].  Gives the error raised ("none": returned),
   the handle returned, the lane's slot afterwards, whether the handle
   returned was connected by this call, the driver connects made, the READ
   UNCOMMITTED statements run, and whether a handle that was not closed was
   overwritten in the slot. *)
lane_connection(lane, slot, in) ==
    LET p == is_connection_open(slot, in.probe, in.pclose)
        c == _connect(in.connOk)
        got(raised, conn, after, connects, dirty) ==
            [raised |-> raised, conn |-> conn, slot |-> after,
             fresh |-> connects = 1 /\ conn # None,
             connects |-> connects, dirty |-> dirty,
             dropped |-> connects = 1 /\ slot # None /\ ~p.closed]
    IN  IF p.raised # "none" THEN got(p.raised, None, slot, 0, 0)
        ELSE IF p.is_open THEN got("none", slot, slot, 0, 0)
        ELSE IF ~ConfigComplete(config, lane)
        THEN got(IF config = None THEN "TypeError" ELSE "KeyError", None, slot, 0, 0)
        ELSE IF SetsDirtyReads(lane) /\ c = None
        THEN got("AttributeError", None, c, 1, 0)
        ELSE IF SetsDirtyReads(lane) /\ in.dirty # "ok"
        THEN got(in.dirty, None, c, 1, 1)
        ELSE got("none", c, c, 1, IF SetsDirtyReads(lane) /\ c # None THEN 1 ELSE 0)

(* pymysql DBClient._close_read_connection / _close_write_connection:
   the slot afterwards *)
_close_connection(slot, cclose) ==
    IF slot = None THEN None
    ELSE IF cclose = "ok" THEN None
    ELSE slot

(* the reset of the lane's slot in the OperationalError handlers; ranOn: the
   failed attempt ran its query on the slot's handle *)
ResetSlot(slot, cclose, ranOn) ==
    IF flavor = "pymysql"
    THEN (IF _close_connection(slot, cclose) = None THEN None
          ELSE IF ranOn THEN "stale" ELSE slot)
    ELSE None

(* the slot after the handlers that give up (pymysql closes the lane) *)
FailSlot(slot, cclose) ==
    IF flavor = "pymysql" THEN _close_connection(slot, cclose) ELSE slot

(* which except clause of execute_write_query takes error e, and what it does *)
WriteDispatch(e) ==
    IF e.cls = "ok" THEN "ok"
    ELSE IF e.cls \in {"ProgrammingError", "InterfaceError"}
    THEN (IF IsLockError(e.msg) THEN "retry_lock" ELSE "fail")
    ELSE IF e.cls = "OperationalError" THEN "retry_stale"
    ELSE "fail"

(* which except clause of execute_read_query takes error e *)
ReadDispatch(e) ==
    IF e.cls = "ok" THEN "ok"
    ELSE IF e.cls = "OperationalError" THEN "retry_stale"
    ELSE "fail"

Dispatch(op, e) == IF op = "write" THEN WriteDispatch(e) ELSE ReadDispatch(e)

(* the value of a successful write: the row count when positive, else True *)
WriteResult_CountAlways(rowcount) == Returned("int", rowcount)
WriteResult(rowcount) ==
    IF rowcount > 0 THEN Returned("int", rowcount) ELSE Returned("True", 0)

(* what the except clause taken does before it retries or gives up: calls of
   db_lock_action and of time.sleep(WRITE_RETRY_WAIT_SECS) *)
Handler_HookOnAnyRetry(d) ==
    [hooks |-> IF d \in {"retry_lock", "retry_stale"} THEN 1 ELSE 0,
     sleeps |-> IF d = "retry_lock" THEN 1 ELSE 0]
Handler(d) ==
    [hooks |-> IF d = "retry_lock" THEN 1 ELSE 0,
     sleeps |-> IF d = "retry_lock" THEN 1 ELSE 0]

(* what one attempt did.  used: the handle the operation worked on: "none",
   "None" (it took a slot or a connection that was None), "probed" (the slot's
   handle, passed by the probe), "fresh" (connected by this attempt),
   "unprobed" (the slot's handle as it was) *)
Attempt(before, connects, dirty, usedDirty, h, used) ==
    [before |-> before, connects |-> connects, dirty |-> dirty,
     usedDirty |-> usedDirty, hooks |-> h.hooks, sleeps |-> h.sleeps, used |-> used]
NoAttempt == Attempt(0, 0, 0, 0, Handler("none"), "none")

(* the value returned by the handlers that give up *)
FailResultOf(fl, op) ==
    IF op = "write" THEN Returned("False", 0)
    ELSE IF fl = "pymysql" THEN Returned("False", 0)
    ELSE Returned("None", 0)
FailResult(op) == FailResultOf(flavor, op)

---------------------------------------------------------------------------
(* The driver outcomes one attempt can meet; an outcome is drawn only for
   the driver calls the attempt makes. *)
Reconnects(slot, pr) ==
    slot = None \/ pr \in {"ProgrammingError", "OperationalError"}
ProbeSet(slot) == IF slot = None THEN {"ok"} ELSE ProbeOutcomes
PCloseSet(slot, pr) ==
    IF slot # None /\ pr \in {"ProgrammingError", "OperationalError"}
    THEN CloseOutcomes ELSE {"ok"}
ConnOkSet(slot, pr) == IF Reconnects(slot, pr) THEN BOOLEAN ELSE {TRUE}
DirtySet(slot, pr, ok, lane) ==
    IF SetsDirtyReads(lane) /\ ok /\ Reconnects(slot, pr)
           /\ ConfigComplete(config, lane)
    THEN {"ok", "OperationalError"} ELSE {"ok"}
AcquireInputs(slot, lane) ==
    UNION { UNION { UNION { { [probe |-> pr, pclose |-> pc, connOk |-> ok, dirty |-> d] :
                                d \in DirtySet(slot, pr, ok, lane) } :
                            ok \in (IF ConfigComplete(config, lane)
                                    THEN ConnOkSet(slot, pr) ELSE {TRUE}) } :
                    pc \in PCloseSet(slot, pr) } :
            pr \in ProbeSet(slot) }

Slot(op) == IF op = "read" THEN read_db ELSE write_db
(* the slot that execute_<op>_query and its except clauses assign *)
Owns_BothLanes(op, lane) == TRUE
Owns(op, lane) == lane = op

(* caller invokes execute_write_query(query) / execute_read_query(query) *)
SqlCall(op) ==
    /\ client = "sql"
    /\ sqlPc \in {"idle", "done"}
    /\ sqlPc' = "run"
    /\ sqlOp' = op
    /\ retries' = 0
    /\ sqlOut' = NoOut
    /\ execCalls' = 0
    /\ allRetried' = TRUE
    /\ prevStale' = FALSE
    /\ lastDisp' = "none"
    /\ ran' = FALSE
    /\ usedFresh' = FALSE
    /\ lastRows' = 0
    /\ lastProbe' = NoProbe
    /\ lastConn' = "none"
    /\ att' = NoAttempt
    /\ UNCHANGED <<client, flavor, WRITE_RETRY_ATTEMPTS, DIRTY_READS, read_db, write_db,
                   config, dirtyRuns, unclosed>>
    /\ UNCHANGED notSql

ExecuteWriteCall == SqlCall("write")
ExecuteReadCall == SqlCall("read")

(* an invocation with retries > WRITE_RETRY_ATTEMPTS raises *)
SqlRetriesExceeded ==
    /\ client = "sql"
    /\ sqlPc = "run"
    /\ RetriesExceeded(retries)
    /\ sqlPc' = "done"
    /\ sqlOut' = ExceededError(flavor, sqlOp)
    /\ UNCHANGED notSql
    /\ UNCHANGED <<client, flavor, WRITE_RETRY_ATTEMPTS, DIRTY_READS, read_db, write_db,
                   sqlOp, retries, execCalls, allRetried, prevStale, lastDisp,
                   ran, usedFresh, lastRows, lastProbe, lastConn, config, att,
                   dirtyRuns, unclosed>>

(* one invocation of execute_write_query / execute_read_query up to its
   return or its recursive call: acquire the lane's handle (a), run the
   query (ex, rowcount), dispatch on the error *)
SqlAttemptBody(op, a, ranQ, ex, rowcount, cclose, probed) ==
    \E e \in {IF a.raised # "none" THEN Err(a.raised, <<>>)
              ELSE IF a.conn = None THEN Err("AttributeError", <<>>)
              ELSE ex} :
    \E d \in {Dispatch(op, e)} :
    \E after \in {IF d = "retry_stale" THEN ResetSlot(a.slot, cclose, ranQ)
                  ELSE IF d = "fail" THEN FailSlot(a.slot, cclose)
                  ELSE a.slot} :
    /\ read_db' = IF Owns(op, "read") THEN after ELSE read_db
    /\ write_db' = IF Owns(op, "write") THEN after ELSE write_db
    /\ execCalls' = IF ranQ THEN execCalls + 1 ELSE execCalls
    /\ allRetried' = (allRetried /\ ranQ /\ d \in {"retry_stale", "retry_lock"})
    /\ prevStale' = (ran /\ lastDisp = "retry_stale")
    /\ lastDisp' = d
    /\ ran' = ranQ
    /\ usedFresh' = (ranQ /\ a.fresh)
    /\ lastRows' = IF d = "ok" THEN rowcount ELSE lastRows
    /\ lastProbe' = probed
    /\ lastConn' = IF a.raised # "none" THEN "raise"
                    ELSE IF a.conn = None THEN "None" ELSE "handle"
    /\ \E runs \in {IF a.connects = 1 THEN a.dirty ELSE dirtyRuns[op]} :
          /\ dirtyRuns' = [dirtyRuns EXCEPT ![op] = IF after = None THEN 0 ELSE runs]
          /\ att' = Attempt(retries, a.connects, a.dirty, IF ranQ THEN runs ELSE 0,
                            Handler(d),
                            IF ranQ THEN (IF a.fresh THEN "fresh" ELSE "probed")
                            ELSE IF a.raised = "none" THEN "None" ELSE "none")
    /\ \E left \in {(IF a.dropped THEN 1 ELSE 0)
                     + (IF a.slot # None /\ after = None /\ flavor # "pymysql"
                        THEN 1 ELSE 0)} :
          /\ unclosed + left <= MaxUnclosed
          /\ unclosed' = unclosed + left
    /\ IF d = "ok"
       THEN /\ sqlPc' = "done"
            /\ sqlOut' = IF op = "write" THEN WriteResult(rowcount)
                         ELSE Returned("list", rowcount)
            /\ retries' = retries
       ELSE IF d = "fail"
       THEN /\ sqlPc' = "done"
            /\ sqlOut' = FailResult(op)
            /\ retries' = retries
       ELSE /\ sqlPc' = "run"
            /\ sqlOut' = sqlOut
            /\ retries' = retries + 1
    /\ UNCHANGED <<client, flavor, WRITE_RETRY_ATTEMPTS, DIRTY_READS, sqlOp, config>>
    /\ UNCHANGED notSql

SqlAttempt ==
    /\ client = "sql"
    /\ sqlPc = "run"
    /\ ~RetriesExceeded(retries)
    /\ \E in \in AcquireInputs(Slot(sqlOp), sqlOp) :
       \E a \in {lane_connection(sqlOp, Slot(sqlOp), in)} :
       \E ranQ \in {a.raised = "none" /\ a.conn # None} :
       \E ex \in (IF ranQ THEN ExecOutcomes ELSE {NoErr}) :
       \E rowcount \in (IF ranQ /\ ex.cls = "ok" THEN 0..MaxRows ELSE {0}) :
       \E cclose \in (IF flavor = "pymysql" /\ a.slot # None
                          /\ (~ranQ \/ ex.cls # "ok")
                       THEN CloseOutcomes ELSE {"ok"}) :
          SqlAttemptBody(sqlOp, a, ranQ, ex, rowcount, cclose,
                         ProbeRecord(Slot(sqlOp), in.probe, in.pclose))

(* the whole of escape_string.  mysqlclient works on self.read_db as it is;
   pymysql does too and calls read_connection() when the slot is None;
   psycopg2 formats the string without a handle *)
EscapeString ==
    /\ client = "sql"
    /\ sqlPc \in {"idle", "done"}
    /\ \E viaConn \in {flavor = "pymysql" /\ read_db = None} :
       \E in \in (IF viaConn THEN AcquireInputs(read_db, "read")
                  ELSE {[probe |-> "ok", pclose |-> "ok", connOk |-> TRUE,
                         dirty |-> "ok"]}) :
       \E a \in {IF viaConn THEN lane_connection("read", read_db, in)
                 ELSE [raised |-> "none", conn |-> read_db, slot |-> read_db,
                       fresh |-> FALSE, connects |-> 0, dirty |-> 0,
                       dropped |-> FALSE]} :
       \E esc \in (IF flavor # "psycopg2" /\ a.conn = "stale"
                   THEN {"ok", "OperationalError"} ELSE {"ok"}) :
          /\ read_db' = a.slot
          /\ dirtyRuns' = IF a.connects = 1
                           THEN [dirtyRuns EXCEPT !["read"] = IF a.slot = None THEN 0
                                                              ELSE a.dirty]
                           ELSE dirtyRuns
          /\ lastProbe' = IF viaConn THEN ProbeRecord(read_db, in.probe, in.pclose)
                           ELSE NoProbe
          /\ lastConn' = IF ~viaConn THEN "none"
                          ELSE IF a.raised # "none" THEN "raise"
                          ELSE IF a.conn = None THEN "None" ELSE "handle"
          /\ att' = Attempt(0, a.connects, a.dirty, 0, Handler("none"),
                            IF flavor = "psycopg2" \/ a.raised # "none" THEN "none"
                            ELSE IF a.conn = None THEN "None"
                            ELSE IF a.fresh THEN "fresh" ELSE "unprobed")
          /\ sqlOut' = IF flavor = "psycopg2" THEN Returned("str", 0)
                        ELSE IF a.raised # "none" THEN Raised(a.raised)
                        ELSE IF a.conn = None THEN Raised("AttributeError")
                        ELSE IF esc # "ok" THEN Raised(esc)
                        ELSE Returned("str", 0)
    /\ sqlPc' = "done"
    /\ sqlOp' = "escape"
    /\ retries' = 0
    /\ execCalls' = 0
    /\ allRetried' = FALSE
    /\ prevStale' = FALSE
    /\ lastDisp' = "none"
    /\ ran' = FALSE
    /\ usedFresh' = FALSE
    /\ lastRows' = 0
    /\ UNCHANGED <<client, flavor, WRITE_RETRY_ATTEMPTS, DIRTY_READS, write_db, config,
                   unclosed>>
    /\ UNCHANGED notSql

SqlInit ==
    /\ flavor \in Flavors
    /\ \E arg \in 0..MaxRetryArg :
          /\ WRITE_RETRY_ATTEMPTS = InitRetryAttempts(flavor, arg)
          /\ WRITE_RETRY_ATTEMPTS <= MaxRetryArg
    /\ DIRTY_READS \in BOOLEAN
    /\ config \in {"ok", None, "no_db_name", "no_read_host"}
    /\ read_db = None
    /\ write_db = None
    /\ sqlPc = "idle"
    /\ sqlOp = "read"
    /\ retries = 0
    /\ sqlOut = NoOut
    /\ execCalls = 0
    /\ allRetried = TRUE
    /\ prevStale = FALSE
    /\ lastDisp = "none"
    /\ ran = FALSE
    /\ usedFresh = FALSE
    /\ lastRows = 0
    /\ lastProbe = NoProbe
    /\ lastConn = "none"
    /\ att = NoAttempt
    /\ dirtyRuns = [read |-> 0, write |-> 0]
    /\ unclosed = 0

SqlNext == ExecuteWriteCall \/ ExecuteReadCall \/ SqlRetriesExceeded \/ SqlAttempt
              \/ EscapeString

---------------------------------------------------------------------------
(* ESClient.  A request's response is "ok", "exists" (a create answered 400,
   which ignore=400 turns into a returned error body), "KeyError" (a body
   without the hits key) or the class of the exception the library raises. *)
Docs == 1..MaxDocs
RecOps == {"search", "get_alias", "delete_alias", "upsert_doc", "remove_doc"}
LoopOps == {"delete_index", "create_index", "setup_index", "bulk_update_event_index"}
ConnErrors == {"ConnectionError", "ConnectionTimeout"}
Faults == ConnErrors \cup {"TransportError"}

(* isinstance(e, base) for the elasticsearch exception classes *)
EsIsInstance(e, base) ==
    \/ e = base
    \/ base = "TransportError"
         /\ e \in {"ConnectionError", "ConnectionTimeout", "NotFoundError",
                   "RequestError", "AuthorizationException"}
    \/ base = "ConnectionError" /\ e = "ConnectionTimeout"
EsIsAny(e, bases) == \E b \in bases : EsIsInstance(e, b)

(* ESClient.__init__: retry_attempts or self.RETRY_ATTEMPTS *)
EsInitRetryAttempts(retry_attempts) ==
    IF retry_attempts # 0 THEN retry_attempts ELSE DEFAULT_RETRY_ATTEMPTS

(* the backend's answers to a request, given what it holds *)
EsResponses(req, arg) ==
    Faults \cup
    CASE req = "search" -> IF idxExists THEN {"ok", "KeyError"} ELSE {"NotFoundError"}
      [] req = "get_alias" -> IF aliasExists THEN {"ok"} ELSE {"NotFoundError"}
      [] req = "delete_alias" -> IF aliasExists THEN {"ok"} ELSE {"NotFoundError"}
      [] req = "upsert_doc" -> {"ok"}
      [] req = "remove_doc" -> IF idxExists /\ arg \in idxDocs THEN {"ok"}
                               ELSE {"NotFoundError"}
      [] req = "delete_index" -> IF idxExists THEN {"ok"} ELSE {"NotFoundError"}
      [] req = "create_index" -> IF idxExists THEN {"exists"}
                                 ELSE {"ok", "AuthorizationException"}
      [] req = "setup_index" -> IF idxExists THEN {"ok"} ELSE {"NotFoundError"}
      [] req = "bulk_update_event_index" -> {"ok", "refresh_failed"}
      [] req = "refresh" -> IF idxExists THEN {"ok"} ELSE {"NotFoundError"}

(* the if retries > self.RETRY_ATTEMPTS: raise of the recursive methods *)
EsRetriesExceeded(r) == r > RETRY_ATTEMPTS

(* which except clause of a recursive method takes the response *)
RecDispatch(op, resp) ==
    IF resp = "ok" THEN "ok"
    ELSE IF op = "search"
    THEN (IF resp = "KeyError" THEN "retry"
          ELSE IF EsIsAny(resp, {"ConnectionTimeout", "ConnectionError", "TransportError"})
          THEN "retry"
          ELSE "raise")
    ELSE IF op \in {"get_alias", "delete_alias"} /\ EsIsInstance(resp, "NotFoundError")
    THEN "notfound"
    ELSE IF EsIsAny(resp, {"ConnectionTimeout", "ConnectionError"}) THEN "retry"
    ELSE "raise"

(* what a recursive method returns for a response it does not retry *)
RecResult(op, resp) ==
    IF resp = "ok"
    THEN (IF op = "search" THEN Returned("list", Cardinality(idxVisible))
          ELSE Returned("dict", 0))
    ELSE IF op = "get_alias" THEN Returned("None", 0)
    ELSE Returned("False", 0)

(* which except clause of a loop method takes the response *)
LoopDispatch(req, resp) ==
    IF resp \in {"ok", "exists"} THEN "ok"
    ELSE IF req = "delete_index" /\ EsIsInstance(resp, "NotFoundError") THEN "break_false"
    ELSE IF req = "create_index" /\ EsIsInstance(resp, "AuthorizationException")
    THEN "break_false"
    ELSE IF EsIsAny(resp, {"ConnectionTimeout", "ConnectionError"}) THEN "continue"
    ELSE "raise"

(* the value a loop method's try block leaves in result *)
LoopResult(req, resp) ==
    IF req = "create_index"
    THEN (IF resp = "ok" THEN Returned("True", 0) ELSE Returned("False", 0))
    ELSE IF req = "bulk_update_event_index" THEN Returned("True", 0)
    ELSE Returned("dict", 0)

(* the initial value of result / success before the loop *)
LoopInitial(op) ==
    IF op = "bulk_update_event_index" THEN Returned("False", 0) ELSE Returned("None", 0)

(* a caller invokes a facade method *)
EsCall(op, arg) ==
    /\ client = "es"
    /\ esPc \in {"idle", "done"}
    /\ esPc' = "run"
    /\ esOp' = op
    /\ esArg' = arg
    /\ esPhase' = IF op = "add_alias" THEN "put_alias"
                  ELSE IF op \in RecOps THEN "rec" ELSE "loop"
    /\ esRetries' = IF op \in RecOps THEN 0 ELSE 1
    /\ esResult' = LoopInitial(op)
    /\ esCalls' = 0
    /\ esAllConn' = TRUE
    /\ esLastResp' = "none"
    /\ esExisted' = idxExists
    /\ esDeleted' = FALSE
    /\ esCreated' = FALSE
    /\ esPrevBulk' = IF esPc = "done" /\ esOp = "bulk_update_event_index"
                         /\ esOut = Returned("True", 0)
                      THEN esArg ELSE 0
    /\ esOut' = NoOut
    /\ UNCHANGED RETRY_ATTEMPTS
    /\ UNCHANGED esStore
    /\ UNCHANGED notEs
    /\ UNCHANGED msVars

EsCallRec ==
    \E op \in RecOps :
       \E arg \in (IF op \in {"upsert_doc", "remove_doc"} THEN Docs ELSE {0}) :
          EsCall(op, arg)
EsCallLoop ==
    \E op \in LoopOps :
       \E arg \in (IF op = "create_index" THEN {0, 1}
                   ELSE IF op = "bulk_update_event_index" THEN Docs ELSE {0}) :
          EsCall(op, arg)

(* the backend carries out a request it answers "ok"; what is written is
   visible to a search once the index has been refreshed.  A bulk update
   answered "refresh_failed" has written its records and failed in the
   refresh that follows *)
EsEffect(req, arg, resp) ==
    IF resp = "refresh_failed" /\ req = "bulk_update_event_index"
    THEN /\ idxExists' = TRUE
         /\ idxDocs' = idxDocs \cup (1..arg)
         /\ UNCHANGED <<idxVisible, aliasExists>>
    ELSE IF resp # "ok"
    THEN UNCHANGED esStore
    ELSE CASE req = "upsert_doc" ->
                /\ idxExists' = TRUE
                /\ idxDocs' = idxDocs \cup {arg}
                /\ UNCHANGED <<idxVisible, aliasExists>>
           [] req = "remove_doc" ->
                /\ idxDocs' = idxDocs \ {arg}
                /\ idxVisible' = idxVisible \ {arg}
                /\ UNCHANGED <<idxExists, aliasExists>>
           [] req = "delete_alias" ->
                /\ aliasExists' = FALSE
                /\ UNCHANGED <<idxExists, idxDocs, idxVisible>>
           [] req = "delete_index" ->
                /\ idxExists' = FALSE
                /\ idxDocs' = {}
                /\ idxVisible' = {}
                /\ aliasExists' = FALSE
           [] req = "create_index" ->
                /\ idxExists' = TRUE
                /\ idxDocs' = {}
                /\ idxVisible' = {}
                /\ aliasExists' = aliasExists
           [] req = "bulk_update_event_index" ->
                /\ idxExists' = TRUE
                /\ idxDocs' = idxDocs \cup (1..arg)
                /\ idxVisible' = idxDocs \cup (1..arg)
                /\ aliasExists' = aliasExists
           [] req = "refresh" ->
                /\ idxVisible' = idxDocs
                /\ UNCHANGED <<idxExists, idxDocs, aliasExists>>
           [] OTHER -> UNCHANGED esStore

(* bulk_update_event_index: what its try block raises when helpers.bulk went
   through and the indices.refresh after it failed on the connection *)
BulkRaised_RefreshIgnored(resp) == IF resp = "refresh_failed" THEN "ok" ELSE resp
BulkRaised(resp) == IF resp = "refresh_failed" THEN "ConnectionError" ELSE resp

(* one invocation of search / get_alias / delete_alias / upsert_doc /
   remove_doc, up to its return, raise or recursive call *)
EsRecAttempt ==
    /\ client = "es"
    /\ esPc = "run"
    /\ UNCHANGED notEs
    /\ UNCHANGED msVars
    /\ esPhase = "rec"
    /\ \E resp \in EsResponses(esOp, esArg) :
       \E d \in {RecDispatch(esOp, resp)} :
          /\ EsEffect(esOp, esArg, resp)
          /\ esCalls' = esCalls + 1
          /\ esAllConn' = (esAllConn /\ resp \in ConnErrors)
          /\ esLastResp' = resp
          /\ IF d \in {"ok", "notfound"}
             THEN /\ esPc' = "done"
                  /\ esOut' = RecResult(esOp, resp)
                  /\ esRetries' = esRetries
             ELSE IF d = "raise" \/ EsRetriesExceeded(esRetries)
             THEN /\ esPc' = "done"
                  /\ esOut' = Raised(resp)
                  /\ esRetries' = esRetries
             ELSE /\ esPc' = "run"
                  /\ esOut' = esOut
                  /\ esRetries' = esRetries + 1
          /\ UNCHANGED <<RETRY_ATTEMPTS, esOp, esArg, esPhase, esResult,
                         esExisted, esDeleted, esCreated, esPrevBulk>>

(* the request a loop method sends in a phase *)
LoopReq(op, phase) == IF phase = "del_loop" THEN "delete_index" ELSE op

(* where create_index goes after its loop, given result *)
AfterCreateLoop(replace, result) ==
    IF replace /\ ~Truthy(result) THEN "del_loop"
    ELSE IF Truthy(result) THEN "refresh"
    ELSE "return"

(* one pass of the for loop of delete_index / create_index / setup_index /
   bulk_update_event_index (also of the delete_index that create_index
   calls), with what follows the loop when this pass ends it *)
EsLoopAttempt ==
    /\ client = "es"
    /\ esPc = "run"
    /\ UNCHANGED notEs
    /\ UNCHANGED msVars
    /\ esPhase \in {"loop", "del_loop"}
    /\ \E req \in {LoopReq(esOp, esPhase)} :
       \E resp \in EsResponses(req, esArg) :
       \E d \in {LoopDispatch(req, BulkRaised(resp))} :
       \E result \in {IF esPhase = "del_loop" THEN esResult
                      ELSE IF d = "ok" THEN LoopResult(req, resp)
                      ELSE IF d = "break_false" THEN Returned("False", 0)
                      ELSE esResult} :
       \E ends \in {(d = "ok") \/ (d = "break_false")
                    \/ (d = "continue" /\ esRetries >= RETRY_ATTEMPTS)} :
       \E next \in {IF d = "raise" THEN "raise"
                    ELSE IF ~ends THEN "again"
                    ELSE IF esPhase = "del_loop" THEN "recreate"
                    ELSE IF esOp = "create_index"
                    THEN AfterCreateLoop(esArg = 1, result)
                    ELSE "return"} :
          /\ EsEffect(req, esArg, resp)
          /\ esCalls' = IF esPhase = "loop" THEN esCalls + 1 ELSE esCalls
          /\ esAllConn' = (esAllConn /\ resp \in ConnErrors)
          /\ esLastResp' = resp
          /\ esResult' = result
          /\ esDeleted' = (esDeleted \/ (req = "delete_index" /\ resp = "ok"))
          /\ esCreated' = (esCreated \/ (req = "create_index" /\ resp = "ok"))
          /\ esRetries' = IF next = "again" THEN esRetries + 1
                          ELSE IF next = "del_loop" THEN 1 ELSE esRetries
          /\ esPhase' = IF next \in {"del_loop", "recreate", "refresh"} THEN next
                        ELSE esPhase
          /\ esPc' = IF next \in {"raise", "return"} THEN "done" ELSE "run"
          /\ esOut' = IF next = "raise" THEN Raised(resp)
                      ELSE IF next = "return" THEN result
                      ELSE esOut
          /\ UNCHANGED <<RETRY_ATTEMPTS, esOp, esArg, esExisted, esPrevBulk>>

(* create_index, replace: the create after delete_index, outside any try *)
EsRecreate ==
    /\ client = "es"
    /\ esPc = "run"
    /\ UNCHANGED notEs
    /\ UNCHANGED msVars
    /\ esPhase = "recreate"
    /\ \E resp \in EsResponses("create_index", esArg) :
          /\ EsEffect("create_index", esArg, resp)
          /\ esCalls' = esCalls + 1
          /\ esAllConn' = (esAllConn /\ resp \in ConnErrors)
          /\ esLastResp' = resp
          /\ esCreated' = (esCreated \/ resp = "ok")
          /\ IF resp \in {"ok", "exists"}
             THEN /\ esResult' = IF resp = "ok" THEN Returned("dict", 0)
                                 ELSE Returned("error_dict", 0)
                  /\ esPhase' = "refresh"
                  /\ esPc' = "run"
                  /\ esOut' = esOut
             ELSE /\ esResult' = esResult
                  /\ esPhase' = esPhase
                  /\ esPc' = "done"
                  /\ esOut' = Raised(resp)
          /\ UNCHANGED <<RETRY_ATTEMPTS, esOp, esArg, esRetries, esExisted, esDeleted,
                         esPrevBulk>>

(* create_index: the refresh of a truthy result, outside any try *)
EsRefresh ==
    /\ client = "es"
    /\ esPc = "run"
    /\ UNCHANGED notEs
    /\ UNCHANGED msVars
    /\ esPhase = "refresh"
    /\ \E resp \in EsResponses("refresh", esArg) :
          /\ EsEffect("refresh", esArg, resp)
          /\ esLastResp' = resp
          /\ esAllConn' = (esAllConn /\ resp \in ConnErrors)
          /\ esPc' = "done"
          /\ esOut' = IF resp = "ok" THEN esResult ELSE Raised(resp)
          /\ UNCHANGED <<RETRY_ATTEMPTS, esOp, esArg, esPhase, esRetries, esResult,
                         esCalls, esExisted, esDeleted, esCreated, esPrevBulk>>

(* a caller invokes add_alias(indexes, alias_name) *)
EsAddAliasCall == EsCall("add_alias", 0)

(* one invocation of add_alias, or of the get_alias(indexes, alias_name,
   retries=retries + 1) that its except clause calls and that goes on by
   itself: up to its return, raise or recursive call.  What that get_alias
   asks for (an alias named as the index) may be there or not *)
EsAddAliasAttempt ==
    /\ client = "es"
    /\ esPc = "run"
    /\ esOp = "add_alias"
    /\ esPhase \in {"put_alias", "get_alias"}
    /\ \E resp \in Faults \cup (IF esPhase = "get_alias" THEN {"ok", "NotFoundError"}
                                ELSE IF idxExists THEN {"ok"} ELSE {"NotFoundError"}) :
       \E d \in {IF esPhase = "get_alias" THEN RecDispatch("get_alias", resp)
                 ELSE IF resp = "ok" THEN "ok"
                 ELSE IF EsIsAny(resp, {"ConnectionTimeout", "ConnectionError"})
                 THEN "retry" ELSE "raise"} :
          /\ aliasExists' = (aliasExists \/ (esPhase = "put_alias" /\ resp = "ok"))
          /\ esCreated' = (esCreated \/ (esPhase = "put_alias" /\ resp = "ok"))
          /\ esCalls' = esCalls + 1
          /\ esAllConn' = (esAllConn /\ resp \in ConnErrors)
          /\ esLastResp' = resp
          /\ IF d \in {"ok", "notfound"}
             THEN /\ esPc' = "done"
                  /\ esOut' = RecResult("get_alias", resp)
                  /\ UNCHANGED <<esRetries, esPhase>>
             ELSE IF d = "raise" \/ EsRetriesExceeded(esRetries)
             THEN /\ esPc' = "done"
                  /\ esOut' = Raised(resp)
                  /\ UNCHANGED <<esRetries, esPhase>>
             ELSE /\ esPc' = "run"
                  /\ esOut' = esOut
                  /\ esRetries' = esRetries + 1
                  /\ esPhase' = "get_alias"
    /\ UNCHANGED <<RETRY_ATTEMPTS, idxExists, idxDocs, idxVisible, esOp, esArg,
                   esResult, esExisted, esDeleted, esPrevBulk>>
    /\ UNCHANGED msVars
    /\ UNCHANGED notEs

(* ESClient.msearch.  An invocation is a frame: its retries, chunk_size and
   doc_type arguments, the start (0-based) of the chunk its loop is at, and
   its found list, which holds the number of the query each hit list answers *)
Frame(retries_, chunk_size, doc_type, at, found) ==
    [retries |-> retries_, chunk_size |-> chunk_size, doc_type |-> doc_type,
     at |-> at, found |-> found]
Min(a, b) == IF a < b THEN a ELSE b
(* chunk_queries: the queries of the chunk that starts at i *)
Chunk(i, chunk_size) == [k \in 1..(Min(msQueries, i + chunk_size) - i) |-> i + k]

(* msearch's recursive call: the arguments it passes on *)
RetryFrame(f) == Frame(f.retries + 1, DEFAULT_CHUNK_SIZE, "event", 0, <<>>)

(* outcomes of self.connection.msearch and of reading the hits of its responses *)
MsearchResponses == Faults \cup (IF idxExists THEN {"ok", "KeyError"} ELSE {"KeyError"})

(* which way msearch's except clauses go *)
MsearchDispatch_RetryKeyError(resp, retries_) ==
    IF resp = "ok" THEN "ok"
    ELSE IF resp = "KeyError"
            \/ EsIsAny(resp, {"ConnectionTimeout", "ConnectionError", "TransportError"})
    THEN (IF EsRetriesExceeded(retries_) THEN "raise" ELSE "retry")
    ELSE "raise"
MsearchDispatch(resp, retries_) ==
    IF resp = "ok" THEN "ok"
    ELSE IF resp = "KeyError"
            \/ EsIsAny(resp, {"ConnectionTimeout", "ConnectionError", "TransportError"})
    THEN (IF EsRetriesExceeded(retries_) THEN "raise"
          ELSE IF resp = "KeyError" THEN "raise"
          ELSE "retry")
    ELSE "raise"

(* an invocation whose loop is over returns found to the invocation that
   called it, which takes it as its own found and goes on with its next
   chunk; gives the frames left and, when none is left, the list returned *)
RECURSIVE MsearchReturn(_, _)
MsearchReturn(stack, found) ==
    IF stack = <<>> THEN [stack |-> <<>>, found |-> found]
    ELSE LET f == stack[Len(stack)]
             g == Frame(f.retries, f.chunk_size, f.doc_type, f.at + f.chunk_size, found)
         IN  IF g.at >= msQueries
             THEN MsearchReturn(SubSeq(stack, 1, Len(stack) - 1), found)
             ELSE [stack |-> SubSeq(stack, 1, Len(stack) - 1) \o <<g>>, found |-> <<>>]

(* a caller invokes msearch(queries, index_name, doc_type, chunk_size=c) *)
EsMsearchCall ==
    /\ client = "es"
    /\ esPc \in {"idle", "done"}
    /\ \E n \in 0..MaxQueries, c \in 1..MaxChunkSize, t \in {"event", "venue"} :
          /\ msQueries' = n
          /\ msChunkSize' = c
          /\ msDocType' = t
          /\ msStack' = IF n = 0 THEN <<>> ELSE <<Frame(0, c, t, 0, <<>>)>>
          /\ esPc' = IF n = 0 THEN "done" ELSE "run"
          /\ esOut' = IF n = 0 THEN Returned("list", 0) ELSE NoOut
    /\ msFound' = <<>>
    /\ msMaxSent' = 0
    /\ msTypeKept' = TRUE
    /\ msSlept' = FALSE
    /\ esOp' = "msearch"
    /\ esArg' = 0
    /\ esPhase' = "msearch"
    /\ esRetries' = 0
    /\ esResult' = Returned("None", 0)
    /\ esCalls' = 0
    /\ esAllConn' = TRUE
    /\ esLastResp' = "none"
    /\ esExisted' = idxExists
    /\ esDeleted' = FALSE
    /\ esCreated' = FALSE
    /\ esPrevBulk' = 0
    /\ UNCHANGED RETRY_ATTEMPTS
    /\ UNCHANGED esStore
    /\ UNCHANGED notEs

(* the innermost invocation of msearch sends the request of its next chunk *)
EsMsearchAttempt ==
    /\ client = "es"
    /\ esPc = "run"
    /\ esPhase = "msearch"
    /\ \E f \in {msStack[Len(msStack)]} :
       \E chunk \in {Chunk(f.at, f.chunk_size)} :
       \E resp \in MsearchResponses :
       \E d \in {MsearchDispatch(resp, f.retries)} :
       \E r \in {IF d = "ok"
                 THEN MsearchReturn(SubSeq(msStack, 1, Len(msStack) - 1),
                                    f.found \o chunk)
                 ELSE [stack |-> msStack, found |-> <<>>]} :
          /\ esCalls' = esCalls + 1
          /\ esAllConn' = (esAllConn /\ resp \in ConnErrors)
          /\ esLastResp' = resp
          /\ esRetries' = f.retries
          /\ msMaxSent' = IF Len(chunk) > msMaxSent THEN Len(chunk) ELSE msMaxSent
          /\ msTypeKept' = (msTypeKept /\ f.doc_type = msDocType)
          /\ msSlept' = (d = "retry")
          /\ IF d = "ok" /\ f.at + f.chunk_size < msQueries
             THEN /\ msStack' = SubSeq(msStack, 1, Len(msStack) - 1)
                                   \o <<Frame(f.retries, f.chunk_size, f.doc_type,
                                              f.at + f.chunk_size, f.found \o chunk)>>
                  /\ esPc' = "run"
                  /\ esOut' = esOut
                  /\ msFound' = msFound
             ELSE IF d = "ok"
             THEN /\ msStack' = r.stack
                  /\ esPc' = IF r.stack = <<>> THEN "done" ELSE "run"
                  /\ esOut' = IF r.stack = <<>> THEN Returned("list", Len(r.found))
                              ELSE esOut
                  /\ msFound' = IF r.stack = <<>> THEN r.found ELSE msFound
             ELSE IF d = "retry"
             THEN /\ msStack' = msStack \o <<RetryFrame(f)>>
                  /\ esPc' = "run"
                  /\ esOut' = esOut
                  /\ msFound' = msFound
             ELSE /\ msStack' = <<>>
                  /\ esPc' = "done"
                  /\ esOut' = Raised(resp)
                  /\ msFound' = msFound
    /\ UNCHANGED <<RETRY_ATTEMPTS, esOp, esArg, esPhase, esResult, esExisted,
                   esDeleted, esCreated, esPrevBulk, msQueries, msChunkSize, msDocType>>
    /\ UNCHANGED esStore
    /\ UNCHANGED notEs

EsInit ==
    /\ \E arg \in 0..MaxRetryArg :
          /\ RETRY_ATTEMPTS = EsInitRetryAttempts(arg)
          /\ RETRY_ATTEMPTS <= MaxRetryArg
    /\ idxExists \in BOOLEAN
    /\ idxDocs = {}
    /\ idxVisible = {}
    /\ aliasExists = FALSE
    /\ esPc = "idle"
    /\ esOp = "search"
    /\ esArg = 0
    /\ esPhase = "rec"
    /\ esRetries = 0
    /\ esResult = Returned("None", 0)
    /\ esCalls = 0
    /\ esAllConn = TRUE
    /\ esLastResp = "none"
    /\ esExisted = FALSE
    /\ esDeleted = FALSE
    /\ esCreated = FALSE
    /\ esPrevBulk = 0
    /\ esOut = NoOut
    /\ msQueries = 0
    /\ msChunkSize = 1
    /\ msDocType = "event"
    /\ msStack = <<>>
    /\ msFound = <<>>
    /\ msMaxSent = 0
    /\ msTypeKept = TRUE
    /\ msSlept = FALSE

EsNext == EsCallRec \/ EsCallLoop \/ EsRecAttempt \/ EsLoopAttempt \/ EsRecreate
             \/ EsRefresh \/ EsMsearchCall \/ EsMsearchAttempt
             \/ EsAddAliasCall \/ EsAddAliasAttempt

---------------------------------------------------------------------------
(* SQSClient *)
ConnectOutcomes == {"ok", "fail_keep", "fail_none"}

(* SQSClient.connect with _get_queue: a failure before get_queue answers
   leaves self.queue as it was, a get_queue that finds no queue stores None *)
sqs_connect_KeepCounter(attempt, q, outcome) ==
    IF outcome = "ok"
    THEN [attempt |-> attempt, handle |-> "queue", raised |-> FALSE]
    ELSE [attempt |-> attempt + 1,
          handle |-> IF outcome = "fail_none" THEN None ELSE q,
          raised |-> attempt + 1 >= sqs_CONN_RETRIES]
sqs_connect(attempt, q, outcome) ==
    IF outcome = "ok"
    THEN [attempt |-> 0, handle |-> "queue", raised |-> FALSE]
    ELSE [attempt |-> attempt + 1,
          handle |-> IF outcome = "fail_none" THEN None ELSE q,
          raised |-> attempt + 1 >= sqs_CONN_RETRIES]

(* outcomes of self.queue.delete_message(sqs_message) *)
DeleteResponses ==
    IF queue = None THEN {"AttributeError"}
    ELSE IF msgInQueue THEN {"ok", "Exception"}
    ELSE {"ok", "AttributeError", "Exception"}

(* outcomes of self.queue.get_messages(...) *)
GetResponses ==
    IF queue = None THEN {"AttributeError"} ELSE {"ok", "Exception"}

(* the timeouts the constructor is given *)
LongPollArgs == {1, DEFAULT_SQS_LONG_POLL_SECONDS}
InvisibleArgs == {DEFAULT_SQS_MSG_INVISIBLE_SECONDS, 30}

(* get_messages called without timeouts: the defaults of its parameters *)
NoSent == [num_messages |-> -1, wait_time_seconds |-> -1, visibility_timeout |-> -1]
GetMessagesDefaults ==
    [num_messages |-> 1,
     wait_time_seconds |-> DEFAULT_SQS_LONG_POLL_SECONDS,
     visibility_timeout |-> DEFAULT_SQS_MSG_INVISIBLE_SECONDS]
(* the arguments a caller gives get_messages: none, or its own three *)
GetMessagesArgs ==
    {GetMessagesDefaults,
     [num_messages |-> 2, wait_time_seconds |-> 1, visibility_timeout |-> 30]}
(* the arguments of an invocation: the caller's in the first, and in a
   recursive one, called as self.get_messages(), the parameters' defaults *)
InvocationArgs(invocation, args) ==
    IF invocation = 0 THEN args ELSE GetMessagesDefaults

(* what one call of connect() did *)
NoConnect == [before |-> 0, outcome |-> "none", raised |-> FALSE]
ConnectRecord(before, outcome, c) ==
    [before |-> before, outcome |-> outcome, raised |-> c.raised]

SqsConnect ==
    /\ client = "sqs"
    /\ sqsPc \in {"idle", "done"}
    /\ sqs_connection_attempt < sqs_CONN_RETRIES + MaxInvocations
    /\ \E outcome \in ConnectOutcomes :
       \E c \in {sqs_connect(sqs_connection_attempt, queue, outcome)} :
          /\ sqs_connection_attempt' = c.attempt
          /\ queue' = c.handle
          /\ sqsOut' = IF c.raised THEN Raised("ConnectError") ELSE Returned("None", 0)
          /\ sqsLastConnect' = ConnectRecord(sqs_connection_attempt, outcome, c)
    /\ sqsPc' = "done"
    /\ sqsOp' = "connect"
    /\ sqsParseFailed' = FALSE
    /\ sqsAbsent' = ~msgInQueue
    /\ sqsInvocations' = 0
    /\ sqsQueueCalls' = 0
    /\ sqsLastResp' = "none"
    /\ UNCHANGED <<sqsTimeouts, sqs_CONN_RETRIES, msgInQueue, sqsArgs, sqsSent>>
    /\ UNCHANGED notSqs

(* a caller invokes parse_message or delete_message on the message *)
SqsCall(op) ==
    /\ client = "sqs"
    /\ sqsPc \in {"idle", "done"}
    /\ sqsPc' = IF op = "parse_message" THEN "parsing"
                ELSE IF op = "get_messages" THEN "getting" ELSE "deleting"
    /\ sqsOp' = op
    /\ sqsParseFailed' = FALSE
    /\ sqsAbsent' = ~msgInQueue
    /\ sqsInvocations' = 0
    /\ sqsQueueCalls' = 0
    /\ sqsLastResp' = "none"
    /\ sqsLastConnect' = NoConnect
    /\ sqsSent' = NoSent
    /\ sqsArgs' \in (IF op = "get_messages" THEN GetMessagesArgs
                     ELSE {GetMessagesDefaults})
    /\ sqsOut' = NoOut
    /\ UNCHANGED <<sqsTimeouts, sqs_CONN_RETRIES, sqs_connection_attempt, queue, msgInQueue>>
    /\ UNCHANGED notSqs
ParseMessageCall == SqsCall("parse_message")
DeleteMessageCall == SqsCall("delete_message")
GetMessagesCall == SqsCall("get_messages")

(* parse_message: json.loads(message.get_body()) *)
SqsParse ==
    /\ client = "sqs"
    /\ sqsPc = "parsing"
    /\ \E parsed \in BOOLEAN :
          /\ sqsParseFailed' = ~parsed
          /\ sqsPc' = IF parsed THEN "done" ELSE "deleting"
          /\ sqsOut' = IF parsed THEN Returned("dict", 0) ELSE sqsOut
    /\ UNCHANGED <<sqsTimeouts, sqs_CONN_RETRIES, sqs_connection_attempt, queue, msgInQueue, sqsOp,
                   sqsAbsent, sqsInvocations, sqsQueueCalls, sqsLastResp,
                   sqsLastConnect, sqsArgs, sqsSent>>
    /\ UNCHANGED notSqs

(* what the call gives its caller once delete_message has returned True *)
AfterDelete(op) ==
    IF op = "parse_message" THEN Raised("ParseError") ELSE Returned("True", 0)

(* one invocation of delete_message, up to its return, raise or recursion *)
SqsDeleteAttempt ==
    /\ client = "sqs"
    /\ sqsPc = "deleting"
    /\ sqsInvocations < MaxInvocations
    /\ sqs_connection_attempt < sqs_CONN_RETRIES + MaxInvocations
    /\ \E resp \in DeleteResponses :
       \E outcome \in (IF resp = "Exception" THEN ConnectOutcomes ELSE {"ok"}) :
       \E c \in {IF resp = "Exception"
                 THEN sqs_connect(sqs_connection_attempt, queue, outcome)
                 ELSE [attempt |-> sqs_connection_attempt, handle |-> queue,
                       raised |-> FALSE]} :
          /\ sqsInvocations' = sqsInvocations + 1
          /\ sqsQueueCalls' = IF queue = None THEN sqsQueueCalls ELSE sqsQueueCalls + 1
          /\ sqsLastResp' = resp
          /\ msgInQueue' = (msgInQueue /\ resp # "ok")
          /\ sqs_connection_attempt' = c.attempt
          /\ queue' = c.handle
          /\ sqsLastConnect' = IF resp = "Exception"
                                THEN ConnectRecord(sqs_connection_attempt, outcome, c)
                                ELSE sqsLastConnect
          /\ IF resp \in {"ok", "AttributeError"}
             THEN /\ sqsPc' = "done"
                  /\ sqsOut' = AfterDelete(sqsOp)
             ELSE IF c.raised
             THEN /\ sqsPc' = "done"
                  /\ sqsOut' = Raised("ConnectError")
             ELSE /\ sqsPc' = "deleting"
                  /\ sqsOut' = sqsOut
    /\ UNCHANGED <<sqsTimeouts, sqs_CONN_RETRIES, sqsOp, sqsParseFailed, sqsAbsent,
                   sqsArgs, sqsSent>>
    /\ UNCHANGED notSqs

(* one invocation of get_messages, up to its return, raise or recursion *)
SqsGetAttempt ==
    /\ client = "sqs"
    /\ sqsPc = "getting"
    /\ sqsInvocations < MaxInvocations
    /\ sqs_connection_attempt < sqs_CONN_RETRIES + MaxInvocations
    /\ \E resp \in GetResponses :
       \E outcome \in (IF resp = "ok" THEN {"ok"} ELSE ConnectOutcomes) :
       \E c \in {IF resp = "ok"
                 THEN [attempt |-> sqs_connection_attempt, handle |-> queue,
                       raised |-> FALSE]
                 ELSE sqs_connect(sqs_connection_attempt, queue, outcome)} :
          /\ sqsInvocations' = sqsInvocations + 1
          /\ sqsQueueCalls' = IF queue = None THEN sqsQueueCalls ELSE sqsQueueCalls + 1
          /\ sqsLastResp' = resp
          /\ sqs_connection_attempt' = c.attempt
          /\ queue' = c.handle
          /\ sqsLastConnect' = IF resp = "ok" THEN sqsLastConnect
                                ELSE ConnectRecord(sqs_connection_attempt, outcome, c)
          /\ sqsSent' = IF queue = None THEN sqsSent
                         ELSE InvocationArgs(sqsInvocations, sqsArgs)
          /\ IF resp = "ok"
             THEN /\ sqsPc' = "done"
                  /\ sqsOut' = Returned("list", IF msgInQueue THEN 1 ELSE 0)
             ELSE IF c.raised
             THEN /\ sqsPc' = "done"
                  /\ sqsOut' = Raised("ConnectError")
             ELSE /\ sqsPc' = "getting"
                  /\ sqsOut' = sqsOut
    /\ UNCHANGED <<sqsTimeouts, sqs_CONN_RETRIES, msgInQueue, sqsOp, sqsParseFailed, sqsAbsent,
                   sqsArgs>>
    /\ UNCHANGED notSqs

(* the state __init__ leaves: its connect() succeeded, or failed below the bound *)
SqsInit ==
    /\ sqs_CONN_RETRIES \in 1..MaxConnRetries
    /\ sqs_LONG_POLL_SECONDS \in LongPollArgs
    /\ sqs_MSG_INVISIBLE_SECONDS \in InvisibleArgs
    /\ \E outcome \in ConnectOutcomes :
       \E c \in {sqs_connect(0, None, outcome)} :
          /\ ~c.raised
          /\ sqs_connection_attempt = c.attempt
          /\ queue = c.handle
    /\ msgInQueue = TRUE
    /\ sqsPc = "idle"
    /\ sqsOp = "connect"
    /\ sqsParseFailed = FALSE
    /\ sqsAbsent = FALSE
    /\ sqsInvocations = 0
    /\ sqsQueueCalls = 0
    /\ sqsLastResp = "none"
    /\ sqsLastConnect = NoConnect
    /\ sqsSent = NoSent
    /\ sqsArgs = GetMessagesDefaults
    /\ sqsOut = NoOut

SqsNext == SqsConnect \/ ParseMessageCall \/ DeleteMessageCall \/ GetMessagesCall
              \/ SqsParse \/ SqsDeleteAttempt \/ SqsGetAttempt

---------------------------------------------------------------------------
(* S3Client *)

(* S3Client.connect with _get_bucket: the counter grows on every call and is
   never reset; a failure raises once the counter has reached CONN_RETRIES *)
s3_connect(attempt, b, ok) ==
    [attempt |-> attempt + 1,
     handle |-> IF ok THEN "bucket" ELSE b,
     raised |-> ~ok /\ attempt + 1 >= s3_CONN_RETRIES]

(* outcomes of Key(self.bucket).get_contents_as_string() *)
ReadResponses ==
    IF bucket = None THEN {"Exception"}
    ELSE IF keyExists THEN {"ok", "Exception"}
    ELSE {"NotFound", "Exception"}

(* outcomes of self.bucket.get_key(key) followed by
   key_obj.get_contents_to_filename(destination); get_key answers None for a
   key that is not there *)
DownloadResponses ==
    IF bucket = None THEN {"AttributeError"}
    ELSE IF keyExists THEN {"ok", "get_key_error", "contents_error"}
    ELSE {"NotFound", "get_key_error"}

(* outcomes of write / upload: k.exists() raising before output is bound
   (write only), the put returning a falsy value, the put raising *)
StoreResponses(op) ==
    IF bucket = None
    THEN (IF op = "write" THEN {"exists_error"} ELSE {"put_error"})
    ELSE {"ok", "falsy", "put_error"}
             \cup (IF op = "write" THEN {"exists_error"} ELSE {})

(* what write / upload hand back for each outcome; write's record carries
   is_new (1) or not (0) *)
StoreResult(op, resp, existed) ==
    IF op = "upload" THEN Returned("True", 0)
    ELSE IF resp = "exists_error" THEN Returned("None", 0)
    ELSE Returned("dict", IF existed THEN 0 ELSE 1)

(* how one connect() ended, for the record of the latest connect *)
ConnectEnd(ok, c) == IF ok THEN "ok" ELSE IF c.raised THEN "raise" ELSE "fail"

(* download: whether key_obj is set when the except clause runs *)
KeyObjSet(resp) == resp \in {"ok", "contents_error"}

S3Connect ==
    /\ client = "s3"
    /\ s3Pc \in {"idle", "done"}
    /\ s3_connection_attempt < s3_CONN_RETRIES + MaxInvocations
    /\ \E ok \in BOOLEAN :
       \E c \in {s3_connect(s3_connection_attempt, bucket, ok)} :
          /\ s3_connection_attempt' = c.attempt
          /\ bucket' = c.handle
          /\ s3Out' = IF c.raised THEN Raised("ConnectError") ELSE Returned("None", 0)
          /\ s3LastConnect' = ConnectEnd(ok, c)
          /\ s3FailStreak' = IF ok THEN 0 ELSE s3FailStreak + 1
    /\ s3Pc' = "done"
    /\ s3Op' = "connect"
    /\ s3Calls' = 0
    /\ s3LastResp' = "none"
    /\ s3Sleeps' = 0
    /\ UNCHANGED <<s3_CONN_RETRIES, keyExists>>
    /\ UNCHANGED notS3

(* a caller invokes read or download on the key *)
S3Call(op) ==
    /\ client = "s3"
    /\ s3Pc \in {"idle", "done"}
    /\ s3Pc' = "run"
    /\ s3Op' = op
    /\ s3Calls' = 0
    /\ s3LastResp' = "none"
    /\ s3Sleeps' = 0
    /\ s3Out' = NoOut
    /\ UNCHANGED <<s3_CONN_RETRIES, s3_connection_attempt, bucket, keyExists,
                   s3LastConnect, s3FailStreak>>
    /\ UNCHANGED notS3
ReadCall == S3Call("read")
DownloadCall == S3Call("download")

(* which way the except clause of read / download goes *)
S3Dispatch_RetryAlways(op, resp) == IF resp = "ok" THEN "ok" ELSE "retry"
S3Dispatch(op, resp) ==
    IF resp = "ok" THEN "ok"
    ELSE IF op = "download" /\ ~KeyObjSet(resp) THEN "raise"
    ELSE "retry"

(* one invocation of read or download, up to its return, raise or recursion *)
S3Attempt ==
    /\ client = "s3"
    /\ s3Pc = "run"
    /\ s3Calls < MaxInvocations
    /\ s3_connection_attempt < s3_CONN_RETRIES + MaxInvocations
    /\ \E resp \in (IF s3Op = "read" THEN ReadResponses ELSE DownloadResponses) :
       \E d \in {S3Dispatch(s3Op, resp)} :
       \E ok \in (IF d = "retry" THEN BOOLEAN ELSE {TRUE}) :
       \E c \in {IF d = "retry" THEN s3_connect(s3_connection_attempt, bucket, ok)
                 ELSE [attempt |-> s3_connection_attempt, handle |-> bucket,
                       raised |-> FALSE]} :
          /\ s3Calls' = s3Calls + 1
          /\ s3LastResp' = resp
          /\ s3Sleeps' = IF d = "retry" THEN s3Sleeps + 1 ELSE s3Sleeps
          /\ s3_connection_attempt' = c.attempt
          /\ bucket' = c.handle
          /\ s3LastConnect' = IF d = "retry" THEN ConnectEnd(ok, c) ELSE s3LastConnect
          /\ s3FailStreak' = IF d # "retry" THEN s3FailStreak
                              ELSE IF ok THEN 0 ELSE s3FailStreak + 1
          /\ IF d = "ok"
             THEN /\ s3Pc' = "done"
                  /\ s3Out' = IF s3Op = "read" THEN Returned("str", 0)
                              ELSE Returned("True", 0)
             ELSE IF d = "raise"
             THEN /\ s3Pc' = "done"
                  /\ s3Out' = Raised(resp)
             ELSE IF c.raised
             THEN /\ s3Pc' = "done"
                  /\ s3Out' = Raised("ConnectError")
             ELSE /\ s3Pc' = "run"
                  /\ s3Out' = s3Out
    /\ UNCHANGED <<s3_CONN_RETRIES, keyExists, s3Op>>
    /\ UNCHANGED notS3

(* the whole of write or upload: one put, no retry, no raise *)
S3Store(op) ==
    /\ client = "s3"
    /\ s3Pc \in {"idle", "done"}
    /\ \E resp \in StoreResponses(op) :
          /\ s3LastResp' = resp
          /\ keyExists' = (keyExists \/ resp = "ok")
          /\ s3Out' = StoreResult(op, resp, keyExists)
    /\ s3Pc' = "done"
    /\ s3Op' = op
    /\ s3Calls' = 1
    /\ s3Sleeps' = 0
    /\ UNCHANGED <<s3_CONN_RETRIES, s3_connection_attempt, bucket, s3LastConnect,
                   s3FailStreak>>
    /\ UNCHANGED notS3
S3Write == S3Store("write")
S3Upload == S3Store("upload")

(* the state __init__ leaves: connect() ran once, and failed only below the bound *)
S3Init ==
    /\ s3_CONN_RETRIES \in 1..MaxConnRetries
    /\ \E ok \in BOOLEAN :
       \E c \in {s3_connect(0, None, ok)} :
          /\ ~c.raised
          /\ s3_connection_attempt = c.attempt
          /\ bucket = c.handle
          /\ s3LastConnect = ConnectEnd(ok, c)
          /\ s3FailStreak = IF ok THEN 0 ELSE 1
    /\ keyExists \in BOOLEAN
    /\ s3Pc = "idle"
    /\ s3Op = "connect"
    /\ s3Calls = 0
    /\ s3LastResp = "none"
    /\ s3Sleeps = 0
    /\ s3Out = NoOut

S3Next == S3Connect \/ ReadCall \/ DownloadCall \/ S3Attempt \/ S3Write \/ S3Upload

---------------------------------------------------------------------------
(* The three flavors of DBClient, constructed with the same arguments and
   called with the same method, each fed the same outcome of cursor.execute
   at every attempt; connections are established and stay open. *)
EqStart == [pc |-> "run", retries |-> 0, attempts |-> 0, out |-> NoOut]

(* one invocation of execute_write_query / execute_read_query of flavor fl on
   outcome e: the guard on retries, the query, the except clause taken *)
EqAttempt(fl, op, st, e, rowcount) ==
    IF st.pc # "run" THEN st
    ELSE IF RetriesExceeded(st.retries)
    THEN [st EXCEPT !.pc = "done", !.out = ExceededError(fl, op)]
    ELSE LET d == Dispatch(op, e)
         IN  IF d = "ok"
             THEN [st EXCEPT !.pc = "done", !.attempts = @ + 1,
                             !.out = IF op = "write" THEN WriteResult(rowcount)
                                     ELSE Returned("list", rowcount)]
             ELSE IF d = "fail"
             THEN [st EXCEPT !.pc = "done", !.attempts = @ + 1,
                             !.out = FailResultOf(fl, op)]
             ELSE [st EXCEPT !.retries = @ + 1, !.attempts = @ + 1]

EqCall ==
    /\ client = "sqleq"
    /\ \A fl \in Flavors : eqSt[fl].pc # "run"
    /\ \E op \in {"read", "write"} : eqOp' = op
    /\ eqTrace' = <<>>
    /\ eqSt' = [fl \in Flavors |-> EqStart]
    /\ UNCHANGED <<client, ctor, sqlVars, esVars, sqsVars, s3Vars, mtVars>>

EqStep ==
    /\ client = "sqleq"
    /\ \E fl \in Flavors : eqSt[fl].pc = "run"
    /\ \E e \in ExecOutcomes :
       \E rowcount \in (IF e.cls = "ok" THEN 0..MaxRows ELSE {0}) :
          /\ eqTrace' = Append(eqTrace, e.cls)
          /\ eqSt' = [fl \in Flavors |-> EqAttempt(fl, eqOp, eqSt[fl], e, rowcount)]
    /\ UNCHANGED <<client, ctor, sqlVars, esVars, sqsVars, s3Vars, mtVars, eqOp>>

EqInit ==
    /\ eqOp = "read"
    /\ eqTrace = <<>>
    /\ eqSt = [fl \in Flavors |-> [EqStart EXCEPT !.pc = "idle"]]

EqNext == EqCall \/ EqStep

---------------------------------------------------------------------------
(* Threads that call execute_read_query (or execute_write_query) on one
   DBClient without a lock.  A thread's call is two steps, as in the code:
   the connection call with its probe and connect, and the query on the
   handle that call returned, with the except clause that follows.  Handles
   have identities. *)
Threads == 1..2
(* the handle the driver's n-th connect opens *)
Handle(n) == <<"h1", "h2", "h3", "h4", "h5">>[n]

(* the handle read_connection / write_connection returns: the slot's handle
   when the probe passes it, else the one just connected (None: none) *)
Acquired_KeepHeld(slot, held, is_open, fresh) ==
    IF held # None THEN held ELSE IF is_open THEN slot ELSE fresh
Acquired(slot, held, is_open, fresh) == IF is_open THEN slot ELSE fresh

MtCall ==
    /\ client = "sqlmt"
    /\ \E t \in 1..mtThreads :
          /\ mtPc[t] \in {"idle", "done"}
          /\ mtPc' = [mtPc EXCEPT ![t] = "acquire"]
          /\ mtRetries' = [mtRetries EXCEPT ![t] = 0]
          /\ mtHeld' = [mtHeld EXCEPT ![t] = None]
    /\ UNCHANGED <<mtThreads, mtOp, mtSlot, mtNextId, mtInvalid, mtUsedInvalid>>
    /\ UNCHANGED <<client, ctor, sqlVars, esVars, sqsVars, s3Vars, eqVars>>

(* the guard on retries, then self.read_connection() / self.write_connection() *)
MtAcquire ==
    /\ client = "sqlmt"
    /\ \E t \in 1..mtThreads :
          /\ mtPc[t] = "acquire"
          /\ IF RetriesExceeded(mtRetries[t])
             THEN /\ mtPc' = [mtPc EXCEPT ![t] = "done"]
                  /\ UNCHANGED <<mtSlot, mtNextId, mtInvalid, mtHeld>>
             ELSE \E pr \in ProbeSet(mtSlot) \ {"InterfaceError"} :
                  \E pclose \in PCloseSet(mtSlot, pr) :
                  \E ok \in ConnOkSet(mtSlot, pr) :
                  \E p \in {is_connection_open(mtSlot, pr, pclose)} :
                  \E fresh \in {IF _connect(ok) = None THEN None ELSE Handle(mtNextId)} :
                     /\ p.is_open \/ fresh = None \/ mtNextId <= MaxHandles
                     /\ mtHeld' = [mtHeld EXCEPT
                                      ![t] = Acquired(mtSlot, mtHeld[t], p.is_open, fresh)]
                     /\ mtSlot' = IF p.is_open THEN mtSlot ELSE fresh
                     /\ mtNextId' = IF p.is_open \/ fresh = None THEN mtNextId
                                     ELSE mtNextId + 1
                     /\ mtInvalid' = IF p.is_open \/ mtSlot = None THEN mtInvalid
                                      ELSE mtInvalid \cup {mtSlot}
                     /\ mtPc' = [mtPc EXCEPT ![t] = "execute"]
    /\ UNCHANGED <<mtThreads, mtOp, mtRetries, mtUsedInvalid>>
    /\ UNCHANGED <<client, ctor, sqlVars, esVars, sqsVars, s3Vars, eqVars>>

(* .cursor() and cursor.execute(query) on the handle the thread holds, and
   the except clause taken, which works on the lane's slot *)
MtExecute ==
    /\ client = "sqlmt"
    /\ \E t \in 1..mtThreads :
          /\ mtPc[t] = "execute"
          /\ \E e \in (IF mtHeld[t] = None THEN {Err("AttributeError", <<>>)}
                       ELSE ExecOutcomes) :
             \E d \in {Dispatch(mtOp, e)} :
             \E cclose \in (IF flavor = "pymysql" /\ mtSlot # None
                                /\ d \in {"retry_stale", "fail"}
                             THEN CloseOutcomes ELSE {"ok"}) :
             \E after \in {IF d = "retry_stale" THEN ResetSlot(mtSlot, cclose, FALSE)
                           ELSE IF d = "fail" THEN FailSlot(mtSlot, cclose)
                           ELSE mtSlot} :
                /\ mtUsedInvalid' = (mtHeld[t] # None /\ mtHeld[t] \in mtInvalid)
                /\ mtSlot' = after
                /\ mtInvalid' = IF mtSlot # None /\ after = None
                                 THEN mtInvalid \cup {mtSlot} ELSE mtInvalid
                /\ mtPc' = [mtPc EXCEPT ![t] = IF d \in {"ok", "fail"} THEN "done"
                                                ELSE "acquire"]
                /\ mtRetries' = [mtRetries EXCEPT ![t] = IF d \in {"ok", "fail"} THEN @
                                                          ELSE @ + 1]
    /\ UNCHANGED <<mtThreads, mtOp, mtNextId, mtHeld>>
    /\ UNCHANGED <<client, ctor, sqlVars, esVars, sqsVars, s3Vars, eqVars>>

MtInit ==
    /\ mtThreads \in Threads
    /\ mtOp \in {"read", "write"}
    /\ mtSlot = None
    /\ mtNextId = 1
    /\ mtInvalid = {}
    /\ mtPc = [t \in Threads |-> "idle"]
    /\ mtHeld = [t \in Threads |-> None]
    /\ mtRetries = [t \in Threads |-> 0]
    /\ mtUsedInvalid = FALSE

MtNext == MtCall \/ MtAcquire \/ MtExecute

---------------------------------------------------------------------------
(* Construction of a DBClient of some flavor or of an ESClient with the
   arguments a caller passes; the fields are what __init__ leaves in the
   object.  Python's 'x or y' gives y when x is 0, None or False. *)
NoCtor == [cls |-> "none", args |-> <<>>, fields |-> <<>>]

(* DBClient(config, dirty_reads, write_retry_attempts) *)
ConstructDB ==
    /\ client = "ctor"
    /\ \E fl \in Flavors, write_retry_attempts \in 0..MaxCtorArg, dirty_reads \in BOOLEAN :
          ctor' = [cls |-> fl,
                   args |-> <<write_retry_attempts, dirty_reads>>,
                   fields |-> <<InitRetryAttempts(fl, write_retry_attempts),
                                dirty_reads>>]
    /\ UNCHANGED <<client, sqlVars, esVars, sqsVars, s3Vars, eqVars, mtVars>>

(* ESClient(config, reconnect_sleep_secs, retry_attempts, timeout) *)
ConstructES ==
    /\ client = "ctor"
    /\ \E reconnect_sleep_secs, retry_attempts, timeout \in 0..MaxCtorArg :
          ctor' = [cls |-> "es",
                   args |-> <<retry_attempts, reconnect_sleep_secs, timeout>>,
                   fields |-> <<EsInitRetryAttempts(retry_attempts),
                                IF reconnect_sleep_secs # 0 THEN reconnect_sleep_secs
                                ELSE DEFAULT_RECONNECT_SLEEP_SECS,
                                IF timeout # 0 THEN timeout
                                ELSE DEFAULT_REQUEST_TIMEOUT>>]
    /\ UNCHANGED <<client, sqlVars, esVars, sqsVars, s3Vars, eqVars, mtVars>>

CtorNext == ConstructDB \/ ConstructES

---------------------------------------------------------------------------
vars == <<client, sqlVars, esVars, sqsVars, s3Vars, eqVars, mtVars, ctor>>

(* the classes a behaviour does not construct keep one fixed initial value *)
SqlOff ==
    /\ SqlInit
    /\ flavor = "mysqlclient"
    /\ WRITE_RETRY_ATTEMPTS = 0
    /\ ~DIRTY_READS
    /\ config = "ok"
EsOff == EsInit /\ RETRY_ATTEMPTS = 1 /\ ~idxExists
SqsOff ==
    /\ SqsInit
    /\ sqs_CONN_RETRIES = 1
    /\ sqs_LONG_POLL_SECONDS = DEFAULT_SQS_LONG_POLL_SECONDS
    /\ sqs_MSG_INVISIBLE_SECONDS = DEFAULT_SQS_MSG_INVISIBLE_SECONDS
S3Off == S3Init /\ s3_CONN_RETRIES = 1 /\ ~keyExists

EqMtOff == EqInit /\ MtInit /\ mtThreads = 1 /\ mtOp = "read" /\ ctor = NoCtor
(* the client the flavors' comparison and the threads work on: complete
   config, no dirty reads, a retry bound every flavor takes as given *)
SqlShared ==
    /\ SqlInit
    /\ ~DIRTY_READS
    /\ config = "ok"
    /\ WRITE_RETRY_ATTEMPTS \in 1..MaxRetryArg

InitSQL == client = "sql" /\ SqlInit /\ EsOff /\ SqsOff /\ S3Off /\ EqMtOff
InitES == client = "es" /\ EsInit /\ SqlOff /\ SqsOff /\ S3Off /\ EqMtOff
InitSQS == client = "sqs" /\ SqsInit /\ SqlOff /\ EsOff /\ S3Off /\ EqMtOff
InitS3 == client = "s3" /\ S3Init /\ SqlOff /\ EsOff /\ SqsOff /\ EqMtOff
InitEQ ==
    /\ client = "sqleq"
    /\ SqlShared /\ flavor = "mysqlclient"
    /\ EsOff /\ SqsOff /\ S3Off
    /\ EqMtOff
InitMT ==
    /\ client = "sqlmt"
    /\ SqlShared
    /\ EsOff /\ SqsOff /\ S3Off
    /\ EqInit /\ MtInit /\ ctor = NoCtor
InitCtor == client = "ctor" /\ SqlOff /\ EsOff /\ SqsOff /\ S3Off /\ EqMtOff
Init == InitSQL \/ InitES \/ InitSQS \/ InitS3 \/ InitEQ \/ InitMT \/ InitCtor
Next == SqlNext \/ EsNext \/ SqsNext \/ S3Next \/ EqNext \/ MtNext \/ CtorNext
Spec == Init /\ [][Next]_vars

SpecSQL == InitSQL /\ [][SqlNext]_vars
SpecES == InitES /\ [][EsNext]_vars
SpecSQS == InitSQS /\ [][SqsNext]_vars
SpecS3 == InitS3 /\ [][S3Next]_vars
SpecEQ == InitEQ /\ [][EqNext]_vars
SpecMT == InitMT /\ [][MtNext]_vars
SpecCtor == InitCtor /\ [][CtorNext]_vars

---------------------------------------------------------------------------
(* C1: in the SQL clients, a call whose query fails with a retried error on
   every attempt runs the query exactly WRITE_RETRY_ATTEMPTS + 1 times and
   then raises the 'retries exceeded' error; no call runs it more often. *)
C1_RetryBound ==
    /\ (client = "sql" /\ sqlOp # "escape" /\ sqlPc = "done" /\ allRetried) =>
          /\ sqlOut = ExceededError(flavor, sqlOp)
          /\ execCalls = WRITE_RETRY_ATTEMPTS + 1
    /\ (client = "sql" /\ sqlOp # "escape" /\ sqlOut.kind = "raise") =>
          /\ sqlOut = ExceededError(flavor, sqlOp)
          /\ retries = WRITE_RETRY_ATTEMPTS + 1
    /\ client = "sql" => execCalls <= WRITE_RETRY_ATTEMPTS + 1
C1_Witness ==
    /\ client = "sql" /\ sqlPc = "done" /\ allRetried /\ sqlOp = "write"
    /\ WRITE_RETRY_ATTEMPTS = 2 /\ execCalls = 3
    /\ sqlOut = ExceededError(flavor, "write")

(* C2: a recursive ElasticSearch method (search, get_alias, delete_alias,
   upsert_doc, remove_doc) whose every request fails on the connection raises
   the error after exactly RETRY_ATTEMPTS + 1 requests. *)
C2_EsRecursiveBound ==
    (client = "es" /\ esPc = "done" /\ esOp \in RecOps /\ esAllConn) =>
        (esOut.kind = "raise" /\ esCalls = RETRY_ATTEMPTS + 1)

(* C3: a loop ElasticSearch method (delete_index, create_index, setup_index,
   bulk_update_event_index) whose every request fails on the connection
   raises once its attempts are used up; it does not return None or False. *)
C3_EsLoopRaises ==
    (client = "es" /\ esPc = "done" /\ esOp \in LoopOps /\ esAllConn) =>
        esOut.kind = "raise"

(* C4: in the SQL clients, the attempt after one that failed with a
   connection-stale error runs its query on a handle connected after that
   failure, never on the handle cached when the failure occurred. *)
C4_FreshAfterStale ==
    (client = "sql" /\ prevStale /\ ran) => usedFresh

(* C5: in the SQL clients, a query that fails with a non-retryable error is
   not retried and the error is raised to the caller, not turned into a
   returned False / None. *)
C5_FatalRaised ==
    (client = "sql" /\ ran /\ lastDisp = "fail") =>
        (sqlPc = "done" /\ sqlOut.kind = "raise")

(* C6: a not-found answer of the backend never makes a lookup raise or
   retry: get_alias, search (ElasticSearch) and read, download (S3) return
   an empty or false result once the backend has answered not-found. *)
C6_NotFoundNeverRaises ==
    /\ (client = "es" /\ esOp \in {"get_alias", "search"}
           /\ esLastResp = "NotFoundError") =>
          (esPc = "done" /\ esOut.kind = "return" /\ ~Truthy(esOut))
    /\ (client = "s3" /\ s3Op \in {"read", "download"} /\ s3LastResp = "NotFound") =>
          (s3Pc = "done" /\ s3Out.kind = "return" /\ ~Truthy(s3Out))

(* C7: a delete of something already absent returns and never raises:
   delete_index, delete_alias, remove_doc (ElasticSearch) once the backend
   has answered that the target is not there, and delete_message (SQS) on a
   message that was gone when the call began. *)
C7_DeleteIdempotent ==
    /\ (client = "es" /\ esOp \in {"delete_index", "delete_alias", "remove_doc"}
           /\ esLastResp = "NotFoundError") =>
          (esPc = "done" /\ esOut.kind = "return")
    /\ (client = "sqs" /\ sqsOp = "delete_message" /\ sqsAbsent
           /\ sqsLastResp \in {"ok", "AttributeError"}) =>
          (sqsPc = "done" /\ sqsOut.kind = "return")

(* C8: when parse_message fails to parse the body, the call issues exactly
   one delete call to the queue and raises the parse error, whatever the
   delete's outcome. *)
C8_ParseFailureDeletesOnce ==
    /\ (client = "sqs" /\ sqsOp = "parse_message" /\ sqsParseFailed) =>
          sqsQueueCalls <= 1
    /\ (client = "sqs" /\ sqsOp = "parse_message" /\ sqsParseFailed
           /\ sqsPc = "done") =>
          (sqsQueueCalls = 1 /\ sqsOut = Raised("ParseError"))

(* C9: a write whose command executes without error and affects zero rows
   ends the call at once with the success flag True: it returns, the value
   is not False (nor any false value), and nothing is retried. *)
C9_ZeroRowsSuccess ==
    (client = "sql" /\ sqlOp = "write" /\ lastDisp = "ok" /\ lastRows = 0) =>
        (sqlPc = "done" /\ Truthy(sqlOut) /\ sqlOut = Returned("True", 0))
C9_Witness ==
    /\ client = "sql" /\ sqlOp = "write" /\ sqlPc = "done"
    /\ lastDisp = "ok" /\ lastRows = 0 /\ ran
    /\ sqlOut = Returned("True", 0)
(* C9 as stated: the value returned for zero affected rows is a zero count. *)
C9_ZeroCountReturned ==
    (client = "sql" /\ sqlOp = "write" /\ lastDisp = "ok" /\ lastRows = 0) =>
        (sqlPc = "done" /\ sqlOut = Returned("int", 0))

(* C10: create_index with replace=True on an index that exists deletes the
   old index, then creates the new one: when it returns, the result is
   truthy, the delete and the create were carried out, and the index exists
   with none of the old documents. *)
C10_ReplaceRecreates ==
    (client = "es" /\ esPc = "done" /\ esOp = "create_index" /\ esArg = 1
        /\ esExisted /\ esOut.kind = "return") =>
        (Truthy(esOut) /\ esDeleted /\ esCreated /\ idxExists /\ idxDocs = {})

(* C11: bulk_update_event_index returns True only after an attempt in which
   the bulk write of its N records went through and the refresh after it
   succeeded: at the return all N documents are visible to a search, and a
   search that follows the True return finds at least N documents. *)
C11_BulkReadAfterWrite ==
    /\ (client = "es" /\ esPc = "done" /\ esOp = "bulk_update_event_index"
           /\ esOut = Returned("True", 0)) =>
          (esLastResp = "ok" /\ idxExists /\ (1..esArg) \subseteq idxVisible)
    /\ (client = "es" /\ esPc = "done" /\ esOp = "search" /\ esPrevBulk > 0
           /\ esOut.kind = "return") =>
          (esOut.tag = "list" /\ esOut.n >= esPrevBulk)
C11_Witness ==
    /\ client = "es" /\ esPc = "done" /\ esOp = "search" /\ esPrevBulk = 2
    /\ esOut = Returned("list", 2)

(* C12: msearch returns one hit list per submitted query, in query order,
   also when a chunk's request failed and was retried. *)
C12_MsearchOnePerQuery ==
    (client = "es" /\ esPc = "done" /\ esOp = "msearch" /\ esOut.kind = "return") =>
        msFound = [k \in 1..msQueries |-> k]

(* C13: no request of an msearch call carries more queries than the caller's
   chunk_size, and every request uses the caller's doc_type, on the first
   pass and on every retry. *)
C13_MsearchChunkBound ==
    (client = "es" /\ esOp = "msearch") =>
        (msMaxSent <= msChunkSize /\ msTypeKept)

(* C14: is_connection_open never raises: whatever exception opening the
   probe cursor or closing the handle raises, it returns False and the
   handle has been closed. *)
C14_ProbeNeverRaises ==
    (client = "sql" /\ lastProbe.exc # "none") =>
        (lastProbe.out = "False" /\ lastProbe.closed)

(* C15: read_connection and write_connection return a live handle or raise;
   when the driver's connect fails they do not return None and the lane's
   slot is not left holding None. *)
C15_ConnectionOrRaise ==
    (client = "sql" /\ lastConn # "none") =>
        lastConn \in {"handle", "raise"}

(* C16: SQSClient.connect keeps its counter: after a successful connect
   connection_attempt is 0, a failed connect increases it by exactly one, and
   connect raises exactly when the counter has then reached CONN_RETRIES
   (below it the failure is logged and connect returns). *)
C16_SqsConnectCounter ==
    /\ (client = "sqs" /\ sqsLastConnect.outcome = "ok") =>
          (sqs_connection_attempt = 0 /\ ~sqsLastConnect.raised)
    /\ (client = "sqs" /\ sqsLastConnect.outcome \in {"fail_keep", "fail_none"}) =>
          /\ sqs_connection_attempt = sqsLastConnect.before + 1
          /\ sqsLastConnect.raised <=> sqs_connection_attempt >= sqs_CONN_RETRIES
    /\ (client = "sqs" /\ sqsLastConnect.raised) =>
          (sqsPc = "done" /\ sqsOut = Raised("ConnectError"))
    /\ (client = "sqs" /\ sqsOp = "connect" /\ sqsPc = "done"
           /\ ~sqsLastConnect.raised) =>
          sqsOut = Returned("None", 0)
C16_Witness ==
    /\ client = "sqs" /\ sqs_CONN_RETRIES = 3 /\ sqsOp = "connect"
    /\ sqsLastConnect.outcome = "ok" /\ sqsLastConnect.before = 2
    /\ sqs_connection_attempt = 0

(* C19: a get_messages or delete_message call whose queue call fails on every
   attempt makes at most CONN_RETRIES + 1 queue calls before it raises, also
   when every reconnect in between succeeds. *)
C19_SqsQueueCallBound ==
    (client = "sqs" /\ sqsOp \in {"get_messages", "delete_message"}) =>
        sqsQueueCalls <= sqs_CONN_RETRIES + 1

(* C17: S3Client.connect resets connection_attempt to zero on every successful
   connect, so that connect raises only after CONN_RETRIES failed connects in
   a row; one failed connect after successful ones is logged, not raised. *)
C17_S3ConnectReset ==
    /\ (client = "s3" /\ s3LastConnect = "ok") => s3_connection_attempt = 0
    /\ (client = "s3" /\ s3LastConnect = "raise") => s3FailStreak >= s3_CONN_RETRIES

(* C18: a read or download whose backend get fails on every attempt while the
   reconnects succeed stops at the retry bound: it makes no more than
   CONN_RETRIES + 1 attempts before it raises. *)
C18_S3ReadBounded ==
    (client = "s3" /\ s3Op \in {"read", "download"}) =>
        s3Calls <= s3_CONN_RETRIES + 1

(* C20: write and upload do not report success for a store that failed: when
   the backend put raises or answers with a failure, the caller gets a raised
   error, not True and not a result record. *)
C20_S3StoreFailureRaised ==
    (client = "s3" /\ s3Pc = "done" /\ s3Op \in {"write", "upload"}
        /\ s3LastResp \in {"falsy", "put_error"}) =>
        s3Out.kind = "raise"

(* C22: create_index called without replace returns a boolean: True when the
   index was created, False when it already existed or the creation was
   refused; it does not return None or a response body. *)
C22_CreateIndexBoolean ==
    (client = "es" /\ esPc = "done" /\ esOp = "create_index" /\ esArg = 0
        /\ esOut.kind = "return") =>
        /\ esOut.tag \in {"True", "False"}
        /\ esOut.tag = "True" <=> esCreated

(* C27: when the caller of get_messages gives no timeouts, the long-poll wait
   and the visibility timeout sent to the queue are the values the client
   was constructed with. *)
C27_SqsTimeoutsFromConstructor ==
    (client = "sqs" /\ sqsOp = "get_messages" /\ sqsSent # NoSent
        /\ sqsArgs = GetMessagesDefaults) =>
        /\ sqsSent.wait_time_seconds = sqs_LONG_POLL_SECONDS
        /\ sqsSent.visibility_timeout = sqs_MSG_INVISIBLE_SECONDS

(* C21: with a config that is None or lacks a key the lane needs,
   read_connection / write_connection raise on every call, make no driver
   connect, and the lane's slot stays None. *)
C21_BadConfigRaises ==
    (client = "sql" /\ lastConn # "none"
        /\ (config \in {None, "no_db_name"}
               \/ (config = "no_read_host" /\ sqlOp \in {"read", "escape"}))) =>
        /\ lastConn = "raise"
        /\ att.connects = 0
        /\ (IF sqlOp = "write" THEN write_db ELSE read_db) = None
C21_Witness ==
    /\ client = "sql" /\ config = "no_read_host" /\ sqlOp = "read" /\ sqlPc = "done"
    /\ lastConn = "raise" /\ att.connects = 0 /\ read_db = None /\ write_db # None

(* C23: at every point the handles the client has opened and not closed are
   at most two, one per lane, also after stale failures and reconnects. *)
C23_AtMostTwoOpenHandles ==
    client = "sql" =>
        unclosed + (IF read_db = None THEN 0 ELSE 1)
                 + (IF write_db = None THEN 0 ELSE 1) <= 2

(* C25: with dirty reads enabled the READ UNCOMMITTED statement is run once on
   every new read-lane connection, before any query runs on it, not again
   while the connection is reused, and never on a write-lane connection;
   without dirty reads it is never run. *)
C25_DirtyReadsOncePerConnection ==
    client = "sql" =>
        /\ (ran /\ sqlOp = "read" /\ DIRTY_READS) => att.usedDirty = 1
        /\ (ran /\ (sqlOp = "write" \/ ~DIRTY_READS)) => att.usedDirty = 0
        /\ att.dirty = 1 => (att.connects = 1 /\ sqlOp # "write" /\ DIRTY_READS)
        /\ dirtyRuns["read"] <= 1 /\ dirtyRuns["write"] = 0
C25_Witness ==
    /\ client = "sql" /\ DIRTY_READS /\ sqlOp = "read" /\ ran /\ ~usedFresh
    /\ att.connects = 0 /\ att.dirty = 0 /\ att.usedDirty = 1

(* C28: after an attempt that failed with a connection-stale error the client
   sleeps the backoff delay once before the next attempt. *)
C28_SleepAfterStale ==
    (client = "sql" /\ lastDisp = "retry_stale") => att.sleeps = 1

(* C29: a write attempt that fails with a lock-classified error runs
   db_lock_action once, sleeps once and retries with the attempt count
   increased by one, leaving the write lane's slot as it was; the hook is not
   run on a successful attempt nor on a connection-stale failure. *)
C29_LockHookOncePerLockError ==
    client = "sql" =>
        /\ lastDisp = "retry_lock" =>
              /\ sqlOp = "write" /\ ran
              /\ att.hooks = 1 /\ att.sleeps = 1
              /\ retries = att.before + 1
              /\ write_db # None
        /\ lastDisp \in {"ok", "retry_stale", "fail", "none"} => att.hooks = 0
C29_Witness ==
    /\ client = "sql" /\ sqlPc = "run" /\ sqlOp = "write" /\ lastDisp = "retry_lock"
    /\ att.hooks = 1 /\ att.before = 1 /\ retries = 2 /\ write_db = "live"

(* C30: every operation that works on a lane's cached handle passes it
   through the liveness probe first and connects a fresh one when the probe
   rejects it or the slot is empty; none works on a slot that is None or on a
   handle the probe has not passed. *)
C30_ProbeBeforeUse ==
    client = "sql" => att.used \in {"none", "probed", "fresh"}

(* C31: the two lanes of a SQL client are independent: no step of
   execute_read_query, whatever its outcome, changes write_db, no step of
   execute_write_query changes read_db, and a client on which no method was
   called yet has None in both slots. *)
C31_LanesIndependent ==
    /\ []((client = "sql" /\ sqlPc = "idle") => (read_db = None /\ write_db = None))
    /\ [][(client = "sql" /\ sqlPc = "run") =>
              /\ sqlOp = "read" => write_db' = write_db
              /\ sqlOp = "write" => read_db' = read_db]_vars
C31_Witness ==
    /\ client = "sql" /\ sqlOp = "read" /\ ran /\ lastDisp = "retry_stale"
    /\ read_db = None /\ write_db = "live"

(* C24: two threads that run execute_read_query (or execute_write_query) on
   the same lane without a lock can reach a state in which one runs its query
   on a handle the other has already invalidated or closed; with a single
   caller on the lane no query runs on an invalidated or closed handle. *)
C24_SingleCallerNeverUsesInvalid ==
    (client = "sqlmt" /\ mtThreads = 1) => ~mtUsedInvalid
C24_Witness ==
    /\ client = "sqlmt" /\ mtThreads = 2 /\ mtUsedInvalid
    /\ \E t \in Threads : mtHeld[t] \in mtInvalid /\ mtHeld[t] # mtSlot

(* C26: the three flavors implement one contract: given the same outcomes of
   the backend on the same call, they make the same number of attempts and
   return the same value or raise at the same point. *)
C26_FlavorsAgree ==
    (client = "sqleq" /\ \A fl \in Flavors : eqSt[fl].pc = "done") =>
        \A f, g \in Flavors :
           /\ eqSt[f].attempts = eqSt[g].attempts
           /\ eqSt[f].out.kind = eqSt[g].out.kind
           /\ eqSt[f].out.kind = "return" => eqSt[f].out = eqSt[g].out

(* C38: in the pymysql client, once a handler has called
   _close_read_connection / _close_write_connection, the lane's slot is None,
   whatever the outcome of the handle's close(), a close that raises
   OperationalError included. *)
C38_CloseEmptiesSlot ==
    (client = "sql" /\ flavor = "pymysql" /\ sqlOp \in {"read", "write"}
        /\ lastDisp \in {"retry_stale", "fail"}) =>
        Slot(sqlOp) = None

(* C32: S3Client.download sleeps, reconnects and retries only after an
   attempt that obtained the key object and then failed in the transfer; an
   attempt that obtained no key object (the key is missing, or the lookup
   failed) ends the call by re-raising, with no sleep, no connect and no
   further attempt. *)
C32_DownloadRetriesOnlyWithKey ==
    /\ []((client = "s3" /\ s3Op = "download" /\ s3Calls > 0) =>
            /\ s3LastResp = "contents_error" <=> s3Sleeps = s3Calls
            /\ s3LastResp # "contents_error" => s3Sleeps = s3Calls - 1
            /\ s3LastResp \notin {"ok", "contents_error"} =>
                  (s3Pc = "done" /\ s3Out = Raised(s3LastResp)))
    /\ [][(client = "s3" /\ s3Op = "download" /\ s3Pc = "run") =>
              IF s3LastResp' = "contents_error"
              THEN s3_connection_attempt' = s3_connection_attempt + 1
              ELSE s3_connection_attempt' = s3_connection_attempt
                   /\ bucket' = bucket /\ s3Pc' = "done"]_vars
C32_Witness ==
    /\ client = "s3" /\ s3Op = "download" /\ s3Pc = "done"
    /\ s3Calls = 2 /\ s3Sleeps = 1
    /\ s3LastResp = "get_key_error" /\ s3Out = Raised("get_key_error")

(* C33: ESClient.msearch never retries after a malformed response (KeyError):
   the first such response ends the call with the KeyError raised, and that
   attempt neither sleeps nor reconnects; ESClient.search retries a malformed
   response, and raises it only once its retries have passed the bound. *)
C33_MsearchNoRetryOnKeyError ==
    /\ []((client = "es" /\ esOp = "msearch" /\ esLastResp = "KeyError") =>
            /\ esPc = "done" /\ esOut = Raised("KeyError")
            /\ ~msSlept /\ msStack = <<>>)
    /\ []((client = "es" /\ esOp = "search" /\ esLastResp = "KeyError") =>
            \/ esPc = "run" /\ esRetries <= RETRY_ATTEMPTS + 1
            \/ esPc = "done" /\ esOut = Raised("KeyError")
                  /\ esRetries = RETRY_ATTEMPTS + 1)
    /\ []((client = "es" /\ esOp = "msearch" /\ msSlept) =>
            (esPc = "run" /\ esLastResp \in Faults /\ esRetries <= RETRY_ATTEMPTS))
C33_Witness ==
    /\ client = "es" /\ esOp = "msearch" /\ esPc = "done"
    /\ esLastResp = "KeyError" /\ esOut = Raised("KeyError")
    /\ ~msSlept /\ esCalls = 2

(* C35: if ESClient.add_alias returns without raising, a put_alias request
   for (indexes, alias_name) was carried out during that call, also when the
   first attempt failed on the connection and the call went on. *)
C35_AddAliasReturnedMeansPut ==
    (client = "es" /\ esOp = "add_alias" /\ esPc = "done"
        /\ esOut.kind = "return") => esCreated

(* C34: when get_messages retries after a failed receive, the retried
   receive is sent with the num_messages, visibility_timeout and
   wait_time_seconds that the caller gave the original call. *)
C34_RetryKeepsArguments ==
    (client = "sqs" /\ sqsOp = "get_messages" /\ sqsInvocations >= 2
        /\ sqsSent # NoSent) => sqsSent = sqsArgs

(* C36: delete_message returns True only when the queue accepted a delete
   request for the message or the message was already gone from the queue;
   it does not when the client holds no queue handle. *)
C36_DeleteTrueMeansDeleted ==
    (client = "sqs" /\ sqsOp = "delete_message" /\ sqsPc = "done"
        /\ sqsOut = Returned("True", 0)) =>
        (~msgInQueue /\ sqsQueueCalls >= 1)

(* C37: for every non-negative integer b passed as the retry bound to a
   client constructor (write_retry_attempts of a SQL client, retry_attempts
   of ESClient), the bound in effect in the object is b, b = 0 included. *)
C37_RetryBoundAsPassed ==
    (client = "ctor" /\ ctor.cls # "none") => ctor.fields[1] = ctor.args[1]

====
